---- MODULE Spec2Model ----
(***************************************************************************)
(* Verification model of quantify-scheduler:                               *)
(*   - StitchedPulseBuilder   (operations/stitched_pulse.py)               *)
(*   - get_operation_strategy (backends/qblox/operation_handling/factory)  *)
(*   - StitchedSquarePulseStrategy.insert_qasm, QASMProgram and            *)
(*     RegisterManager (described by spec.md and test_pulses.py only)      *)
(*                                                                         *)
(* Times are integers in nanoseconds, voltages are integers.  The float    *)
(* comparison numpy.isclose keeps its default tolerances.                  *)
(***************************************************************************)
EXTENDS Integers, Sequences, FiniteSets, TLC

VARIABLES
    port,          \* StitchedPulseBuilder._port
    clock,         \* StitchedPulseBuilder._clock
    builder_t0,    \* StitchedPulseBuilder._t0
    pulses,        \* StitchedPulseBuilder._pulses
    offsets,       \* StitchedPulseBuilder._offsets
    call,          \* the last builder call: its name, the exception raised, the value returned
    pulse_arg,     \* add_pulse: the caller's Operation, before and after the call
    operation_info,                        \* get_operation_strategy: argument
    instruction_generated_pulses_enabled,  \* get_operation_strategy: argument
    io_mode,                               \* get_operation_strategy: argument
    factory_ret,                           \* get_operation_strategy: what it returned or raised
    instructions,         \* QASMProgram.instructions
    label_counter,        \* QASMProgram: number of loop labels generated
    available_registers,  \* RegisterManager: the registers in the pool
    held_registers,       \* the registers handed out and not yet released
    released_registers,   \* history: the registers released at least once
    qasm_call,            \* the last QASMProgram / RegisterManager call
    pulse_info,           \* StitchedPulse.data["pulse_info"]
    stitched_call,        \* the last StitchedPulse call
    operation_dict,       \* Schedule.data["operation_dict"]: the hashes that are keys
    schedulables,         \* Schedule.data["schedulables"], in insertion order
    schedule_call,        \* the last Schedule call
    wf_args,              \* resize_waveform / shift_waveform: the arguments
    wf_ret,               \* resize_waveform / shift_waveform: the value returned
    sequencer_cfg,        \* SequencerSettings.initialize_from_config_dict: the config dict
    sequencer_settings,   \* ... what it returned or raised
    decompose_args,       \* decompose_long_square_pulse: the arguments
    decompose_ret,        \* ... what it returned or raised
    commandtable_args,    \* get_commandtable_map: the arguments
    commandtable_map,     \* ... the dict it returned
    profile,              \* ProfiledInstrumentCoordinator.profile
    parent_ic,            \* the calls the wrapped InstrumentCoordinator has received
    coordinator_call      \* the last ProfiledInstrumentCoordinator call

builder_vars == <<port, clock, builder_t0, pulses, offsets, call, pulse_arg>>
factory_vars == <<operation_info, instruction_generated_pulses_enabled, io_mode, factory_ret>>
qasm_vars == <<instructions, label_counter, available_registers, held_registers,
               released_registers, qasm_call>>
stitched_vars == <<pulse_info, stitched_call>>
schedule_vars == <<operation_dict, schedulables, schedule_call>>
waveform_vars == <<wf_args, wf_ret>>
settings_vars == <<sequencer_cfg, sequencer_settings>>
pulse_library_vars == <<decompose_args, decompose_ret>>
zhinst_vars == <<commandtable_args, commandtable_map>>
coordinator_vars == <<profile, parent_ic, coordinator_call>>
\* The variables of the components modelled in the last sections of the module
other_vars == <<settings_vars, pulse_library_vars, zhinst_vars, coordinator_vars>>
vars == <<builder_vars, factory_vars, qasm_vars, stitched_vars, schedule_vars, waveform_vars,
          other_vars>>

\* The components a specification does not exercise stay in these states
FactoryIdle ==
    /\ operation_info = <<>>
    /\ instruction_generated_pulses_enabled = FALSE
    /\ io_mode = "None"
    /\ factory_ret = [raised |-> "pending"]

QasmIdle ==
    /\ instructions = <<>>
    /\ label_counter = 0
    /\ available_registers = {}
    /\ held_registers = {}
    /\ released_registers = {}
    /\ qasm_call = [op |-> "init", raised |-> "none", ret |-> 0, duration |-> 0, first |-> 1]

StitchedIdle ==
    /\ pulse_info = <<>>
    /\ stitched_call = [op |-> "init", raised |-> "none"]

ScheduleIdle ==
    /\ operation_dict = {}
    /\ schedulables = <<>>
    /\ schedule_call = [op |-> "init", raised |-> "none", adds |-> 0, rerun |-> FALSE,
                        ref_op |-> [kind |-> "None", name |-> "None", owner |-> "None"]]

WaveformIdle ==
    /\ wf_args = <<>>
    /\ wf_ret = [func |-> "none"]

SettingsIdle ==
    /\ sequencer_cfg = <<>>
    /\ sequencer_settings = [raised |-> "pending"]

PulseLibraryIdle ==
    /\ decompose_args = <<>>
    /\ decompose_ret = [raised |-> "pending"]

ZhinstIdle ==
    /\ commandtable_args = <<>>
    /\ commandtable_map = [called |-> FALSE, map |-> <<>>]

CoordinatorIdle ==
    /\ profile = <<>>
    /\ parent_ic = <<>>
    /\ coordinator_call = [method |-> "init", args |-> <<>>, ret |-> "None"]

OtherIdle ==
    /\ SettingsIdle
    /\ PulseLibraryIdle
    /\ ZhinstIdle
    /\ CoordinatorIdle

BuilderIdle ==
    /\ port = "None"
    /\ clock = "None"
    /\ builder_t0 = 0
    /\ pulses = <<>>
    /\ offsets = <<>>
    /\ call = [op |-> "init", raised |-> "none", ret |-> <<>>]
    /\ pulse_arg = <<>>

(***************************************************************************)
(* Bounds and input sets of the builder model                              *)
(***************************************************************************)
MaxOffsets == 2
MaxPulses == 2
MaxAdds == 2
MaxTime == 36

None == "None"
NoDuration == <<>>

\* qblox_constants.GRID_TIME, in ns: the default min_duration of add_voltage_offset
GRID_TIME == 4

PortArgs == {"q0:mw"}
ClockArgs == {"q0.01"}
T0Args == {0, 4}
OffsetValues == {<<0, 0>>, <<1, 2>>}
RelTimeArgs == {0, 12}
DurationArgs == {NoDuration, <<2>>, <<12>>}
PulseDurations == {8}
PulseT0Args == {0, 4}
PulseKinds == {"pulse", "acquisition", "gate", "logic", "voltage_offset"}

(***************************************************************************)
(* Helpers                                                                 *)
(***************************************************************************)
Abs(x) == IF x < 0 THEN 0 - x ELSE x

SetMax(S) == CHOOSE x \in S : \A y \in S : y <= x

\* numpy.isclose(a, b) for two times given in ns: |a-b| <= atol + rtol*|b| with
\* the defaults atol = 1e-8 (10 ns) and rtol = 1e-5, scaled by 1e5 to stay integral.
isclose_time(a, b) == Abs(a - b) * 100000 <= 1000000 + Abs(b)

\* numpy.isclose(a, b) for two voltages given in whole volts: atol = 1e-8 is less
\* than one unit, so only the relative term rtol*|b| can bridge a difference.
isclose_volt(a, b) == Abs(a - b) * 100000 <= Abs(b)

\* `duration or 0.0`
DurationOrZero(d) == IF d = NoDuration THEN 0 ELSE d[1]

\* list.sort(key=lambda op: op.t0) / sorted(..., key=lambda op: op.t0): stable
RECURSIVE InsertByT0(_, _)
InsertByT0(s, x) ==
    IF s = <<>> THEN <<x>>
    ELSE IF s[1].t0 <= x.t0 THEN <<s[1]>> \o InsertByT0(Tail(s), x)
    ELSE <<x>> \o s

RECURSIVE sorted_by_t0(_)
sorted_by_t0(s) ==
    IF s = <<>> THEN <<>>
    ELSE InsertByT0(sorted_by_t0(SubSeq(s, 1, Len(s) - 1)), s[Len(s)])

(***************************************************************************)
(* StitchedPulseBuilder                                                    *)
(***************************************************************************)
\* _VoltageOffsetInfo(path_0, path_1, t0, duration)
VoltageOffsetInfo(p0, p1, t, d) ==
    [path_0 |-> p0, path_1 |-> p1, t0 |-> t, duration |-> d]

\* StitchedPulseBuilder.operation_end, as a function of _pulses and _offsets
operation_end_of(ps, offs) ==
    LET max_from_pulses ==
            IF Len(ps) = 0 THEN 0
            ELSE SetMax({ps[i].t0 + ps[i].duration : i \in 1..Len(ps)})
        max_from_offsets ==
            IF Len(offs) = 0 THEN 0
            ELSE SetMax({offs[i].t0 + DurationOrZero(offs[i].duration) : i \in 1..Len(offs)})
    IN  IF max_from_pulses >= max_from_offsets THEN max_from_pulses ELSE max_from_offsets

operation_end == operation_end_of(pulses, offsets)

\* Mutant of _overlaps_with_existing_offsets: this_end forgets the duration
overlaps_ignoring_duration(offs, offset) ==
    LET sorted == sorted_by_t0(Append(offs, offset))
    IN  \E i \in 1..(Len(sorted) - 1) :
            LET next_start == sorted[i + 1].t0
                this_end == sorted[i].t0
            IN  next_start < this_end

\* StitchedPulseBuilder._overlaps_with_existing_offsets
overlaps_with_existing_offsets(offs, offset) ==
    LET sorted == sorted_by_t0(Append(offs, offset))
    IN  \E i \in 1..(Len(sorted) - 1) :
            LET next_start == sorted[i + 1].t0
                this_end == sorted[i].t0 + DurationOrZero(sorted[i].duration)
            IN  next_start < this_end

\* create_operation_from_info: the VoltageOffset operation of an info.  `origin` is
\* an annotation that is not in the source: "offset" for the operation of an added
\* segment, "reset" for a reset emitted in the loop, "end_reset" for the final one.
create_operation_from_info(info, p, c, origin) ==
    [offset_path_0 |-> info.path_0, offset_path_1 |-> info.path_1,
     duration |-> DurationOrZero(info.duration), port |-> p, clock |-> c,
     t0 |-> info.t0, origin |-> origin]

\* The start time the loop compares this_end with: self._offsets[i + 1].t0, an
\* index into the list in insertion order (k is the 1-based position i + 1).
next_offset_t0(offs, offset_infos, k) == offs[k + 1].t0

\* The body of `for i, offset_info in enumerate(offset_infos)`, from position k on
RECURSIVE offset_loop(_, _, _, _, _, _, _, _)
offset_loop(k, offset_infos, offs, ps, p, c, offset_ops, background) ==
    IF k > Len(offset_infos) THEN [offset_ops |-> offset_ops, background |-> background]
    ELSE
        LET offset_info == offset_infos[k]
            ops1 == Append(offset_ops, create_operation_from_info(offset_info, p, c, "offset"))
        IN  IF offset_info.duration = NoDuration
            THEN offset_loop(k + 1, offset_infos, offs, ps, p, c, ops1,
                             <<offset_info.path_0, offset_info.path_1>>)
            ELSE
                LET this_end == offset_info.t0 + DurationOrZero(offset_info.duration)
                    bg1 == IF isclose_time(this_end, operation_end_of(ps, offs))
                           THEN <<0, 0>> ELSE background
                    ops2 == IF k >= Len(offs)
                               \/ ~isclose_time(next_offset_t0(offs, offset_infos, k), this_end)
                            THEN Append(ops1, create_operation_from_info(
                                     VoltageOffsetInfo(bg1[1], bg1[2], this_end, NoDuration),
                                     p, c, "reset"))
                            ELSE ops1
                IN  offset_loop(k + 1, offset_infos, offs, ps, p, c, ops2, bg1)

\* StitchedPulseBuilder._build_voltage_offset_operations
build_voltage_offset_operations(offs, ps, p, c) ==
    IF Len(offs) = 0 THEN <<>>
    ELSE
        LET r == offset_loop(1, sorted_by_t0(offs), offs, ps, p, c, <<>>, <<0, 0>>)
        IN  IF ~(isclose_volt(r.background[1], 0) /\ isclose_volt(r.background[2], 0))
            THEN Append(r.offset_ops, create_operation_from_info(
                     VoltageOffsetInfo(0, 0, operation_end_of(ps, offs), NoDuration),
                     p, c, "end_reset"))
            ELSE r.offset_ops

\* No Operation has been passed to add_pulse
NoPulseArg == <<>>

NoCall == [op |-> "init", raised |-> "none", ret |-> <<>>]

Returned(op, ret) == [op |-> op, raised |-> "none", ret |-> ret]
Raised(op, exc) == [op |-> op, raised |-> exc, ret |-> <<>>]

\* StitchedPulseBuilder.__init__(port, clock), with t0 left at its default 0.0
Init ==
    /\ port \in PortArgs \cup {None}
    /\ clock \in ClockArgs \cup {None}
    /\ builder_t0 = 0
    /\ pulses = <<>>
    /\ offsets = <<>>
    /\ call = NoCall
    /\ pulse_arg = NoPulseArg
    /\ FactoryIdle
    /\ QasmIdle
    /\ StitchedIdle
    /\ ScheduleIdle
    /\ WaveformIdle
    /\ OtherIdle

\* StitchedPulseBuilder.set_port
set_port ==
    /\ UNCHANGED <<factory_vars, qasm_vars, stitched_vars, schedule_vars, waveform_vars, other_vars>>
    /\ \E p \in PortArgs : port' = p
    /\ call' = Returned("set_port", <<>>)
    /\ UNCHANGED <<clock, builder_t0, pulses, offsets, pulse_arg>>

\* StitchedPulseBuilder.set_clock
set_clock ==
    /\ UNCHANGED <<factory_vars, qasm_vars, stitched_vars, schedule_vars, waveform_vars, other_vars>>
    /\ \E c \in ClockArgs : clock' = c
    /\ call' = Returned("set_clock", <<>>)
    /\ UNCHANGED <<port, builder_t0, pulses, offsets, pulse_arg>>

\* StitchedPulseBuilder.set_t0
set_t0 ==
    /\ UNCHANGED <<factory_vars, qasm_vars, stitched_vars, schedule_vars, waveform_vars, other_vars>>
    /\ \E t \in T0Args : builder_t0' = t
    /\ call' = Returned("set_t0", <<>>)
    /\ UNCHANGED <<port, clock, pulses, offsets, pulse_arg>>

\* Mutant of deepcopy: the builder works on the caller's object itself
deepcopy_aliased(before, written) == written

\* pulse = deepcopy(pulse): what the caller's Operation holds once the builder has
\* written `written` into its own copy of `before`
deepcopy(before, written) == before

\* StitchedPulseBuilder.add_pulse: the argument is an Operation with one pulse_info
\* entry (kind "pulse") or an operation the method rejects.
add_pulse ==
    /\ UNCHANGED <<factory_vars, qasm_vars, stitched_vars, schedule_vars, waveform_vars, other_vars>>
    /\ \E kind \in PulseKinds, d \in PulseDurations, t \in PulseT0Args, append \in BOOLEAN :
        LET arg == [t0 |-> t, duration |-> d, port |-> "arg_port", clock |-> "arg_clock"]
        IN  IF kind # "pulse"
            THEN /\ call' = Raised("add_pulse", "RuntimeError")
                 /\ pulse_arg' = [before |-> arg, after |-> arg]
                 /\ UNCHANGED <<port, clock, builder_t0, pulses, offsets>>
            ELSE LET start == IF append THEN t + operation_end ELSE t
                     pulse == [arg EXCEPT !.t0 = start]
                 IN  /\ Len(pulses) < MaxPulses
                     /\ Len(pulses) + Len(offsets) < MaxAdds
                     /\ start + d <= MaxTime
                     /\ pulses' = Append(pulses, pulse)
                     /\ pulse_arg' = [before |-> arg, after |-> deepcopy(arg, pulse)]
                     /\ call' = Returned("add_pulse", <<append>>)
                     /\ UNCHANGED <<port, clock, builder_t0, offsets>>

\* StitchedPulseBuilder.add_voltage_offset
add_voltage_offset ==
    /\ UNCHANGED <<factory_vars, qasm_vars, stitched_vars, schedule_vars, waveform_vars, other_vars>>
    /\ \E value \in OffsetValues, duration \in DurationArgs,
       rel_time_arg \in RelTimeArgs, append \in BOOLEAN, min_duration \in {GRID_TIME} :
        LET rel_time == IF append THEN rel_time_arg + operation_end ELSE rel_time_arg
            offset == VoltageOffsetInfo(value[1], value[2], rel_time, duration)
        IN  IF duration # NoDuration /\ duration[1] < min_duration
            THEN /\ call' = Raised("add_voltage_offset", "ValueError")
                 /\ UNCHANGED <<port, clock, builder_t0, pulses, offsets, pulse_arg>>
            ELSE IF overlaps_with_existing_offsets(offsets, offset)
            THEN /\ call' = Raised("add_voltage_offset", "RuntimeError")
                 /\ UNCHANGED <<port, clock, builder_t0, pulses, offsets, pulse_arg>>
            ELSE /\ Len(offsets) < MaxOffsets
                 /\ Len(pulses) + Len(offsets) < MaxAdds
                 /\ rel_time + DurationOrZero(duration) <= MaxTime
                 /\ offsets' = Append(offsets, offset)
                 /\ call' = Returned("add_voltage_offset", <<>>)
                 /\ UNCHANGED <<port, clock, builder_t0, pulses, pulse_arg>>

\* Mutant of port_clock_defined: only the port is looked at
port_defined_only(p, c) == p # None

\* _distribute_port_clock: neither "No port is defined." nor "No clock is defined."
port_clock_defined(p, c) == p # None /\ c # None

\* The pulse_info entry of a pulse as StitchedPulse.add_pulse stores it
pulse_entry(pulse) ==
    [offset_path_0 |-> None, offset_path_1 |-> None, duration |-> pulse.duration,
     port |-> pulse.port, clock |-> pulse.clock, t0 |-> pulse.t0, origin |-> "pulse"]

\* StitchedPulseBuilder.build: _build_voltage_offset_operations, then
\* _distribute_port_clock (raises when port or clock is unset), then _distribute_t0
\* (both write into the builder's own pulses), then StitchedPulse.add_pulse per op.
build ==
    /\ UNCHANGED <<factory_vars, qasm_vars, stitched_vars, schedule_vars, waveform_vars, other_vars>>
    /\ LET offset_ops == build_voltage_offset_operations(offsets, pulses, port, clock)
           distributed ==
               [i \in 1..Len(pulses) |->
                   [pulses[i] EXCEPT !.port = port, !.clock = clock,
                                     !.t0 = pulses[i].t0 + builder_t0]]
       IN  IF ~port_clock_defined(port, clock)
           THEN /\ call' = Raised("build", "RuntimeError")
                /\ UNCHANGED <<port, clock, builder_t0, pulses, offsets, pulse_arg>>
           ELSE /\ \A i \in 1..Len(pulses) :
                       distributed[i].t0 + distributed[i].duration <= MaxTime
                /\ pulses' = distributed
                /\ call' = Returned("build",
                       [i \in 1..Len(distributed) |-> pulse_entry(distributed[i])]
                           \o offset_ops)
                /\ UNCHANGED <<port, clock, builder_t0, offsets, pulse_arg>>

Next ==
    \/ set_port
    \/ set_clock
    \/ add_pulse
    \/ add_voltage_offset
    \/ build

Spec == Init /\ [][Next]_vars

(***************************************************************************)
(* Properties of the StitchedPulseBuilder                                  *)
(***************************************************************************)
IsBounded(o) == o.duration # NoDuration

\* End of a segment's interval [t0, t0 + duration), duration 0 when none was given
SegmentEnd(o) == o.t0 + DurationOrZero(o.duration)

\* The half-open intervals [t0, end) of two segments share a point
IntervalsOverlap(a, aEnd, b, bEnd) ==
    (IF a.t0 >= b.t0 THEN a.t0 ELSE b.t0) < (IF aEnd <= bEnd THEN aEnd ELSE bEnd)

BuildReturned == call.op = "build" /\ call.raised = "none"

\* The voltage-offset operations of the StitchedPulse that build() returned
BuiltOffsetOps == SelectSeq(call.ret, LAMBDA e : e.origin # "pulse")

\* C1: when only bounded, pairwise non-overlapping segments were added, in any
\* insertion order, build() emits no reset at the end time of a segment whose end
\* is the start time of another added segment.
C1_NoResetWhereSegmentStarts ==
    (BuildReturned /\ \A i \in 1..Len(offsets) : IsBounded(offsets[i])) =>
        \A i, j \in 1..Len(offsets) :
            (i # j /\ offsets[j].t0 = SegmentEnd(offsets[i])) =>
                ~\E k \in 1..Len(BuiltOffsetOps) :
                    /\ BuiltOffsetOps[k].origin = "reset"
                    /\ BuiltOffsetOps[k].t0 = SegmentEnd(offsets[i])

\* C2: add_voltage_offset raises whenever the new segment's interval
\* [t0, t0 + duration) overlaps the interval of a previously added segment (a call
\* that returns has appended a segment overlapping none of the old ones), and a call
\* that raises leaves offsets, pulses and operation_end as they were.
C2_OverlapRaisesAndKeepsState ==
    [][ /\ (call'.op = "add_voltage_offset" /\ call'.raised = "none") =>
            /\ Len(offsets') = Len(offsets) + 1
            /\ SubSeq(offsets', 1, Len(offsets)) = offsets
            /\ \A i \in 1..Len(offsets) :
                   ~IntervalsOverlap(offsets[i], SegmentEnd(offsets[i]),
                                     offsets'[Len(offsets')],
                                     SegmentEnd(offsets'[Len(offsets')]))
        /\ (call'.op = "add_voltage_offset" /\ call'.raised # "none") =>
            /\ offsets' = offsets
            /\ pulses' = pulses
            /\ operation_end_of(pulses', offsets') = operation_end_of(pulses, offsets)
      ]_vars

\* C2 witness: an add_voltage_offset was rejected for overlap with a stored segment
C2_Witness ==
    /\ call.op = "add_voltage_offset"
    /\ call.raised = "RuntimeError"
    /\ Len(offsets) >= 1

\* End of a segment when one added without a duration extends to operation_end
SegmentEndOpenToEnd(o) == IF IsBounded(o) THEN SegmentEnd(o) ELSE operation_end

\* C3 (as claimed): no two stored segments overlap, a segment without a duration
\* being taken to extend from its start to the end of the StitchedPulse.
C3_NoOverlapOpenEndedToEnd ==
    \A i, j \in 1..Len(offsets) :
        i < j => ~IntervalsOverlap(offsets[i], SegmentEndOpenToEnd(offsets[i]),
                                   offsets[j], SegmentEndOpenToEnd(offsets[j]))

\* C3 (amended): no two stored segments overlap when a segment without a duration
\* counts with duration 0, as the overlap check takes it, and no stored segment
\* starts strictly inside a stored bounded segment.
C3_NoOverlapOpenEndedEmpty ==
    \A i, j \in 1..Len(offsets) :
        i # j =>
            /\ ~IntervalsOverlap(offsets[i], SegmentEnd(offsets[i]),
                                 offsets[j], SegmentEnd(offsets[j]))
            /\ ~(offsets[i].t0 < offsets[j].t0 /\ offsets[j].t0 < SegmentEnd(offsets[i]))

\* C3 witness: a bounded segment stored together with an open-ended one that
\* starts before the bounded one ends
C3_Witness ==
    \E i, j \in 1..Len(offsets) :
        /\ ~IsBounded(offsets[i])
        /\ IsBounded(offsets[j])
        /\ offsets[i].t0 <= offsets[j].t0

\* The offsets both paths are left at after applying ops in ascending time order,
\* equal times in list order: those of the last operation among the latest ones
FinalOffset(ops) ==
    LET last == SetMax({k \in 1..Len(ops) :
                           \A m \in 1..Len(ops) : ops[m].t0 <= ops[k].t0})
    IN  <<ops[last].offset_path_0, ops[last].offset_path_1>>

\* The background value the loop of _build_voltage_offset_operations ends with
TrackedBackground ==
    offset_loop(1, sorted_by_t0(offsets), offsets, pulses, port, clock,
                <<>>, <<0, 0>>).background

IsResetToZeroAtEnd(e, origin) ==
    /\ e.origin = origin
    /\ e.t0 = operation_end
    /\ e.offset_path_0 = 0
    /\ e.offset_path_1 = 0

\* C4: for a builder with at least one segment, the built offset operations leave
\* both paths at 0 at operation_end; the final reset to zero at operation_end is
\* appended whenever the tracked background is non-zero after the loop, and never
\* when a reset to zero at operation_end was already emitted.
C4_EndsAtZeroWithOneFinalReset ==
    (BuildReturned /\ Len(offsets) >= 1) =>
        LET ops == BuiltOffsetOps
        IN  /\ FinalOffset(ops) = <<0, 0>>
            /\ TrackedBackground # <<0, 0>> =>
                   IsResetToZeroAtEnd(ops[Len(ops)], "end_reset")
            /\ (\E k \in 1..Len(ops) : IsResetToZeroAtEnd(ops[k], "reset")) =>
                   ~\E k \in 1..Len(ops) : ops[k].origin = "end_reset"

\* C16: build() raises and returns nothing whenever the port or the clock is unset,
\* whatever was added; a build() that raises leaves the pulses (port, clock and t0
\* of each) and the offsets as they were; with port and clock set build() returns
\* a StitchedPulse, so setting the missing one and building again succeeds.
C16_BuildWithoutPortOrClockRaises ==
    [][ call'.op = "build" =>
            /\ (port = None \/ clock = None) =>
                   /\ call'.raised = "RuntimeError"
                   /\ call'.ret = <<>>
            /\ call'.raised # "none" =>
                   /\ pulses' = pulses
                   /\ offsets' = offsets
                   /\ port = None \/ clock = None
            /\ (port # None /\ clock # None) => call'.raised = "none"
      ]_vars

\* C16 witness: build() raised on a builder that holds a pulse and an offset and
\* whose port is set but whose clock is not
C16_Witness ==
    /\ call.op = "build"
    /\ call.raised = "RuntimeError"
    /\ port # None
    /\ clock = None
    /\ Len(pulses) > 0
    /\ Len(offsets) > 0

\* The sum of the durations of the first n pulses
RECURSIVE SumOfDurations(_, _)
SumOfDurations(ps, n) ==
    IF n = 0 THEN 0 ELSE SumOfDurations(ps, n - 1) + ps[n].duration

\* Every pulse starts where the one added before it ends, the first at 0
BackToBack(ps) ==
    \A i \in 1..Len(ps) : ps[i].t0 = SumOfDurations(ps, i - 1)

\* C18: add_pulse with append=True stores the pulse with its t0 shifted by the
\* operation_end of before the call, with append=False with its own t0; pulses with
\* own t0 = 0 appended one after another without offsets are back to back and
\* operation_end is the sum of their durations; the caller's Operation is not
\* modified.
C18_AppendShiftsByOperationEnd ==
    [][ (call'.op = "add_pulse" /\ call'.raised = "none") =>
            LET arg == pulse_arg'.before
                append == call'.ret[1]
                new == pulses'[Len(pulses')]
            IN  /\ Len(pulses') = Len(pulses) + 1
                /\ SubSeq(pulses', 1, Len(pulses)) = pulses
                /\ new.duration = arg.duration
                /\ append => new.t0 = arg.t0 + operation_end
                /\ ~append => new.t0 = arg.t0
                /\ (append /\ arg.t0 = 0 /\ offsets = <<>> /\ BackToBack(pulses)) =>
                       /\ BackToBack(pulses')
                       /\ operation_end' = SumOfDurations(pulses', Len(pulses'))
                /\ pulse_arg'.after = arg
      ]_vars

\* C18 witness: a second pulse with own t0 = 0 was appended behind the first one
C18_Witness ==
    /\ call.op = "add_pulse"
    /\ call.raised = "none"
    /\ call.ret = <<TRUE>>
    /\ offsets = <<>>
    /\ Len(pulses) = 2
    /\ pulse_arg.before.t0 = 0
    /\ pulses[2].t0 = pulses[1].duration
    /\ pulses[2].t0 > 0

\* C27: whether two voltage-offset segments are accepted does not depend on the
\* order of the add_voltage_offset calls: when the builder has accepted segment A
\* and then segment B, B followed by A (at the same start times) is accepted too.
\* Every single segment is accepted by an empty builder, so this is the claim's
\* "A then B raises if and only if B then A raises".
C27_OverlapOrderIndependent ==
    (Len(offsets) = 2 /\ pulses = <<>>) =>
        ~overlaps_with_existing_offsets(<<offsets[2]>>, offsets[1])

(***************************************************************************)
(* The builder with a start time t0: StitchedPulseBuilder(port, clock, t0) *)
(* and set_t0                                                              *)
(***************************************************************************)
InitT0 ==
    /\ port \in PortArgs
    /\ clock \in ClockArgs
    /\ builder_t0 \in T0Args
    /\ pulses = <<>>
    /\ offsets = <<>>
    /\ call = NoCall
    /\ pulse_arg = NoPulseArg
    /\ FactoryIdle
    /\ QasmIdle
    /\ StitchedIdle
    /\ ScheduleIdle
    /\ WaveformIdle
    /\ OtherIdle

NextT0 ==
    \/ set_t0
    \/ add_pulse
    \/ add_voltage_offset
    \/ build

SpecT0 == InitT0 /\ [][NextT0]_vars

\* The pulse entries of the StitchedPulse that a build() returned
BuiltPulses(ret) == SelectSeq(ret, LAMBDA e : e.origin = "pulse")

C28_BuildKeepsRelativeTiming ==
    [][ (call'.op = "build" /\ call'.raised = "none") =>
            LET built_pulses == BuiltPulses(call'.ret)
                built_segments == SelectSeq(call'.ret, LAMBDA e : e.origin = "offset")
                built_end_resets == SelectSeq(call'.ret, LAMBDA e : e.origin = "end_reset")
                segments == sorted_by_t0(offsets)
            IN  /\ Len(built_pulses) = Len(pulses)
                /\ Len(built_segments) = Len(segments)
                /\ \A i \in 1..Len(pulses) :
                       /\ \A k \in 1..Len(segments) :
                              built_pulses[i].t0 - built_segments[k].t0
                                  = pulses[i].t0 - segments[k].t0
                       /\ \A k \in 1..Len(built_end_resets) :
                              built_pulses[i].t0 - built_end_resets[k].t0
                                  = pulses[i].t0 - operation_end_of(pulses, offsets)
      ]_vars

(***************************************************************************)
(* Operation strategy factory                                              *)
(***************************************************************************)
\* OpInfo.data is a dict: a record with one field per key the factory reads, a
\* key that is not in the dict having the value Absent.
Absent == "<absent>"

HasKey(data, k) == data[k] # Absent

\* q1asm_instructions.UPDATE_PARAMETERS
UPDATE_PARAMETERS == "upd_param"

\* BinMode.APPEND
APPEND == "append"

OpNames == {"MarkerPulse", "test_pulse"}
IoModes == {"complex", "real"}

OpInfoData ==
    [acq_channel : {Absent, "0"},
     bin_mode : {Absent, APPEND, "average"},
     protocol : {Absent, "Trace", "SSBIntegrationComplex", "ThresholdedAcquisition",
                 "WeightedIntegratedComplex", "TriggerCount", "Unknown"},
     offset_path_0 : {Absent, "0.5"},
     offset_path_1 : {Absent, "0.5"},
     instruction : {Absent, UPDATE_PARAMETERS},
     port : {Absent, None, "q0:mw"},
     wf_func : {Absent, None, "quantify_scheduler.waveforms.square",
                "quantify_scheduler.waveforms.staircase",
                "quantify_scheduler.waveforms.ramp"},
     phase_shift : {Absent, "90"},
     reset_clock_phase : {Absent, "True"},
     clock_freq_new : {Absent, "5e9"}]

\* OpInfo(name, data, timing); timing is not read by the factory
OpInfos == [name : OpNames, data : OpInfoData]

\* OpInfo.is_acquisition
is_acquisition(info) ==
    HasKey(info.data, "acq_channel") \/ HasKey(info.data, "bin_mode")

\* OpInfo.is_offset_instruction
is_offset_instruction(info) ==
    HasKey(info.data, "offset_path_0") \/ HasKey(info.data, "offset_path_1")

\* OpInfo.is_parameter_update
is_parameter_update(info) ==
    (IF HasKey(info.data, "instruction") THEN info.data["instruction"] ELSE "")
        = UPDATE_PARAMETERS

\* A strategy object: its class and the arguments of its constructor
Strategy(cls, info, mode) ==
    [raised |-> "none", strategy |-> cls, operation_info |-> info, io_mode |-> mode]

\* raise ValueError(f"... {repr(operation_info)} ..."): names the operation
ValueErrorAbout(info) ==
    [raised |-> "ValueError", strategy |-> None, operation_info |-> info, io_mode |-> None]

\* data[key] on a dict without the key
KeyErrorOf(key) ==
    [raised |-> "KeyError", strategy |-> None, operation_info |-> key, io_mode |-> None]

\* Mutant of _get_acquisition_strategy: the Trace/APPEND combination is not rejected
get_acquisition_strategy_no_append_check(info) ==
    IF ~HasKey(info.data, "protocol") THEN KeyErrorOf("protocol")
    ELSE
        LET protocol == info.data["protocol"]
        IN  IF protocol \in {"Trace", "SSBIntegrationComplex", "ThresholdedAcquisition"}
            THEN Strategy("SquareAcquisitionStrategy", info, None)
            ELSE IF protocol = "WeightedIntegratedComplex"
            THEN Strategy("WeightedAcquisitionStrategy", info, None)
            ELSE IF protocol = "TriggerCount"
            THEN Strategy("TriggerCountAcquisitionStrategy", info, None)
            ELSE ValueErrorAbout(info)

\* _get_acquisition_strategy
get_acquisition_strategy(info) ==
    IF ~HasKey(info.data, "protocol") THEN KeyErrorOf("protocol")
    ELSE
        LET protocol == info.data["protocol"]
        IN  IF protocol \in {"Trace", "SSBIntegrationComplex", "ThresholdedAcquisition"}
            THEN IF protocol = "Trace" /\ ~HasKey(info.data, "bin_mode")
                 THEN KeyErrorOf("bin_mode")
                 ELSE IF protocol = "Trace" /\ info.data["bin_mode"] = APPEND
                 THEN ValueErrorAbout(info)
                 ELSE Strategy("SquareAcquisitionStrategy", info, None)
            ELSE IF protocol = "WeightedIntegratedComplex"
            THEN Strategy("WeightedAcquisitionStrategy", info, None)
            ELSE IF protocol = "TriggerCount"
            THEN Strategy("TriggerCountAcquisitionStrategy", info, None)
            ELSE ValueErrorAbout(info)

\* _get_pulse_strategy.  An if/elif chain takes one branch only: once the branch
\* `elif instruction_generated_pulses_enabled` is taken and wf_func is neither
\* reserved shape, control leaves the chain and reaches the final return.
get_pulse_strategy(info, enabled, mode) ==
    IF is_offset_instruction(info) THEN Strategy("AwgOffsetStrategy", info, None)
    ELSE IF is_parameter_update(info) THEN Strategy("UpdateParameterStrategy", info, None)
    ELSE IF ~HasKey(info.data, "port") THEN KeyErrorOf("port")
    ELSE IF info.data["port"] = None
    THEN IF HasKey(info.data, "phase_shift")
         THEN Strategy("NcoPhaseShiftStrategy", info, None)
         ELSE IF HasKey(info.data, "reset_clock_phase")
         THEN Strategy("NcoResetClockPhaseStrategy", info, None)
         ELSE IF HasKey(info.data, "clock_freq_new")
         THEN Strategy("NcoSetClockFrequencyStrategy", info, None)
         ELSE Strategy("IdleStrategy", info, None)
    ELSE IF enabled
    THEN IF ~HasKey(info.data, "wf_func") THEN KeyErrorOf("wf_func")
         ELSE IF info.data["wf_func"] = "quantify_scheduler.waveforms.square"
         THEN Strategy("StitchedSquarePulseStrategy", info, mode)
         ELSE IF info.data["wf_func"] = "quantify_scheduler.waveforms.staircase"
         THEN Strategy("StaircasePulseStrategy", info, mode)
         ELSE Strategy("GenericPulseStrategy", info, mode)
    ELSE IF info.name = "MarkerPulse"
    THEN Strategy("MarkerPulseStrategy", info, mode)
    ELSE Strategy("GenericPulseStrategy", info, mode)

\* Mutant of get_operation_strategy: offset instructions are recognised before
\* acquisitions
operation_strategy_offset_first(info, enabled, mode) ==
    IF is_offset_instruction(info) THEN get_pulse_strategy(info, enabled, mode)
    ELSE IF is_acquisition(info) THEN get_acquisition_strategy(info)
    ELSE get_pulse_strategy(info, enabled, mode)

\* get_operation_strategy, as a function of its arguments
operation_strategy(info, enabled, mode) ==
    IF is_acquisition(info) THEN get_acquisition_strategy(info)
    ELSE get_pulse_strategy(info, enabled, mode)

NotCalled == [raised |-> "pending"]

\* The arguments of one call of get_operation_strategy
InitFactory ==
    /\ operation_info \in OpInfos
    /\ instruction_generated_pulses_enabled \in BOOLEAN
    /\ io_mode \in IoModes
    /\ factory_ret = NotCalled
    /\ BuilderIdle
    /\ QasmIdle
    /\ StitchedIdle
    /\ ScheduleIdle
    /\ WaveformIdle
    /\ OtherIdle

\* get_operation_strategy
get_operation_strategy ==
    /\ factory_ret = NotCalled
    /\ factory_ret' = operation_strategy(operation_info,
                          instruction_generated_pulses_enabled, io_mode)
    /\ UNCHANGED <<operation_info, instruction_generated_pulses_enabled, io_mode>>
    /\ UNCHANGED <<builder_vars, qasm_vars, stitched_vars, schedule_vars, waveform_vars, other_vars>>

NextFactory == get_operation_strategy

SpecFactory == InitFactory /\ [][NextFactory]_vars

(***************************************************************************)
(* Properties of the operation strategy factory                            *)
(***************************************************************************)
FactoryReturned == factory_ret.raised # "pending"

AcquisitionStrategies ==
    {"SquareAcquisitionStrategy", "WeightedAcquisitionStrategy",
     "TriggerCountAcquisitionStrategy"}

ReservedShapes ==
    {"quantify_scheduler.waveforms.square", "quantify_scheduler.waveforms.staircase"}

\* The OpInfo is no acquisition, no offset instruction, no parameter update
IsPlainPulse(info) ==
    /\ ~is_acquisition(info)
    /\ ~is_offset_instruction(info)
    /\ ~is_parameter_update(info)

Gets(cls) == factory_ret.raised = "none" /\ factory_ret.strategy = cls

\* C5: the strategy is that of the first matching rule: (1) acquisition keys ->
\* an acquisition strategy (or its error), (2) offset-path keys -> offset strategy,
\* (3) parameter update -> update strategy, (4) port None -> phase shift, else
\* clock-phase reset, else clock-frequency set, else idle, (5) generation enabled
\* and wf_func a reserved shape -> stitched square or staircase; these two are
\* never returned when generation is disabled.
C5_FirstMatchingRule ==
    FactoryReturned =>
        LET info == operation_info
            d == operation_info.data
        IN  /\ is_acquisition(info) =>
                   \/ factory_ret.raised # "none"
                   \/ factory_ret.strategy \in AcquisitionStrategies
            /\ (~is_acquisition(info) /\ is_offset_instruction(info)) =>
                   Gets("AwgOffsetStrategy")
            /\ (~is_acquisition(info) /\ ~is_offset_instruction(info)
                    /\ is_parameter_update(info)) =>
                   Gets("UpdateParameterStrategy")
            /\ (IsPlainPulse(info) /\ d["port"] = None) =>
                   Gets(IF HasKey(d, "phase_shift") THEN "NcoPhaseShiftStrategy"
                        ELSE IF HasKey(d, "reset_clock_phase")
                        THEN "NcoResetClockPhaseStrategy"
                        ELSE IF HasKey(d, "clock_freq_new")
                        THEN "NcoSetClockFrequencyStrategy"
                        ELSE "IdleStrategy")
            /\ (IsPlainPulse(info) /\ HasKey(d, "port") /\ d["port"] # None
                    /\ instruction_generated_pulses_enabled
                    /\ d["wf_func"] \in ReservedShapes) =>
                   Gets(IF d["wf_func"] = "quantify_scheduler.waveforms.square"
                        THEN "StitchedSquarePulseStrategy"
                        ELSE "StaircasePulseStrategy")
            /\ ~instruction_generated_pulses_enabled =>
                   ~(Gets("StitchedSquarePulseStrategy") \/ Gets("StaircasePulseStrategy"))

\* C5 witness: an OpInfo matching rules (1), (2), (3) and (5) at once was classified
C5_Witness ==
    /\ FactoryReturned
    /\ is_acquisition(operation_info)
    /\ is_offset_instruction(operation_info)
    /\ is_parameter_update(operation_info)
    /\ instruction_generated_pulses_enabled
    /\ operation_info.data["wf_func"] \in ReservedShapes
    /\ factory_ret.raised = "none"
    /\ factory_ret.strategy \in AcquisitionStrategies

\* C6: a marker-only pulse (named MarkerPulse, with a port, a plain pulse, wf_func
\* no reserved shape) gets the marker strategy whether or not instruction
\* generation is enabled.
C6_MarkerPulseGetsMarkerStrategy ==
    (/\ FactoryReturned
     /\ operation_info.name = "MarkerPulse"
     /\ IsPlainPulse(operation_info)
     /\ HasKey(operation_info.data, "port")
     /\ operation_info.data["port"] # None
     /\ HasKey(operation_info.data, "wf_func")
     /\ operation_info.data["wf_func"] \notin ReservedShapes) =>
        Gets("MarkerPulseStrategy")

\* C7: for an acquisition, Trace with bin mode APPEND raises an error naming the
\* operation and constructs no strategy; Trace with another bin mode,
\* SSBIntegrationComplex and ThresholdedAcquisition give the square acquisition
\* strategy, WeightedIntegratedComplex the weighted one, TriggerCount the
\* trigger-count one; any other protocol name raises an error.
C7_AcquisitionProtocols ==
    (FactoryReturned /\ is_acquisition(operation_info)
        /\ HasKey(operation_info.data, "protocol")) =>
        LET protocol == operation_info.data["protocol"]
            bin_mode == operation_info.data["bin_mode"]
        IN  /\ (protocol = "Trace" /\ bin_mode = APPEND) =>
                   /\ factory_ret.raised = "ValueError"
                   /\ factory_ret.operation_info = operation_info
                   /\ factory_ret.strategy = None
            /\ (\/ protocol = "Trace" /\ HasKey(operation_info.data, "bin_mode")
                       /\ bin_mode # APPEND
                \/ protocol \in {"SSBIntegrationComplex", "ThresholdedAcquisition"}) =>
                   /\ Gets("SquareAcquisitionStrategy")
                   /\ factory_ret.operation_info = operation_info
            /\ protocol = "WeightedIntegratedComplex" =>
                   Gets("WeightedAcquisitionStrategy")
            /\ protocol = "TriggerCount" =>
                   Gets("TriggerCountAcquisitionStrategy")
            /\ protocol \notin {"Trace", "SSBIntegrationComplex", "ThresholdedAcquisition",
                                "WeightedIntegratedComplex", "TriggerCount"} =>
                   /\ factory_ret.raised = "ValueError"
                   /\ factory_ret.strategy = None

\* C7 witness: a Trace acquisition with bin mode APPEND was rejected
C7_Witness ==
    /\ FactoryReturned
    /\ is_acquisition(operation_info)
    /\ operation_info.data["protocol"] = "Trace"
    /\ operation_info.data["bin_mode"] = APPEND
    /\ factory_ret.raised = "ValueError"

(***************************************************************************)
(* Register Manager, assembly program and stitched square pulses.  Their   *)
(* code is not among the sources; they are modelled from spec.md 4.3, 4.5, *)
(* 6 and 8 and from the instruction lists of test_pulses.py.               *)
(***************************************************************************)
max_registers == 2
MaxInstructions == 12
MaxDurationSteps == 16

\* The stitching threshold, in ns
PULSE_STITCHING_DURATION == 1000

\* Pulse durations in ns: multiples of 200 ns and the 1 ms of the tests
StitchDurations == {200 * k : k \in 1..MaxDurationSteps} \cup {1000000}

Registers == 0..(max_registers - 1)

SetMin(S) == CHOOSE x \in S : \A y \in S : x <= y

\* RegisterManager.allocate_register: the next free register
next_free_register(available) == SetMin(available)

\* Mutant of pool_after_allocate: the register stays in the pool
pool_after_allocate_unchanged(available, register) == available

\* RegisterManager.allocate_register: the pool once a register is handed out
pool_after_allocate(available, register) == available \ {register}

\* One line of the program: (label, opcode, arguments)
Instruction(label, opcode, args) == [label |-> label, opcode |-> opcode, args |-> args]

NoLabel == <<>>

\* The label of the n-th stitching loop, f"stitch{n}"
StitchLabel(n) == <<"stitch", n>>

\* Mutant of next_label_number: the counter starts over for every loop
next_label_number_restarting(counter) == 1

\* The label generation of the program: a counter that goes up by one per label
next_label_number(counter) == counter + 1

\* Mutant of uses_loop: a single repetition is looped as well
uses_loop_from_one(repetitions) == repetitions >= 1

\* Whether the threshold-long part of a stitched square pulse is a counted loop
uses_loop(repetitions) == repetitions >= 2

\* Mutant of resets_gain: the gain is always set back
resets_gain_always(repetitions, remaining) == TRUE

\* Whether the gain is set back to zero at the end of a stitched square pulse
resets_gain(repetitions, remaining) == repetitions < 2 \/ remaining > 0

\* StitchedSquarePulseStrategy.insert_qasm for a pulse of amplitude 1 V on a module
\* with max_awg_output_voltage 2.5 V: the lines it appends, given the register and
\* the label number the program hands out for a loop
stitched_square_instructions(duration, register, n) ==
    LET repetitions == duration \div PULSE_STITCHING_DURATION
        remaining == duration % PULSE_STITCHING_DURATION
        play_threshold == Instruction(NoLabel, "play", <<0, 1, PULSE_STITCHING_DURATION>>)
    IN  <<Instruction(NoLabel, "set_awg_gain", <<13107, 0>>)>>
        \o (IF uses_loop(repetitions)
            THEN <<Instruction(NoLabel, "move", <<repetitions, register>>),
                   Instruction(StitchLabel(n), "", <<>>),
                   play_threshold,
                   Instruction(NoLabel, "loop", <<register, StitchLabel(n)>>)>>
            ELSE IF repetitions >= 1 THEN <<play_threshold>>
            ELSE <<>>)
        \o (IF remaining > 0
            THEN <<Instruction(NoLabel, "play", <<0, 1, remaining>>)>>
            ELSE <<>>)
        \o (IF resets_gain(repetitions, remaining)
            THEN <<Instruction(NoLabel, "set_awg_gain", <<0, 0>>)>>
            ELSE <<>>)

QasmReturned(op, ret, duration, first) ==
    [op |-> op, raised |-> "none", ret |-> ret, duration |-> duration, first |-> first]

QasmRaised(op, duration, first) ==
    [op |-> op, raised |-> "ResourceExhausted", ret |-> 0, duration |-> duration,
     first |-> first]

\* A resource-exhaustion error is fatal: it aborts the compilation of the program
Compiling == qasm_call.raised = "none"

\* QASMProgram(static_hw_properties, RegisterManager())
InitQasm ==
    /\ instructions = <<>>
    /\ label_counter = 0
    /\ available_registers = Registers
    /\ held_registers = {}
    /\ released_registers = {}
    /\ qasm_call = [op |-> "init", raised |-> "none", ret |-> 0, duration |-> 0, first |-> 1]
    /\ BuilderIdle
    /\ FactoryIdle
    /\ StitchedIdle
    /\ ScheduleIdle
    /\ WaveformIdle
    /\ OtherIdle

\* RegisterManager.allocate_register, called by a user of the program
allocate_register ==
    /\ UNCHANGED <<builder_vars, factory_vars, stitched_vars, schedule_vars, waveform_vars, other_vars>>
    /\ Compiling
    /\ IF available_registers = {}
       THEN /\ qasm_call' = QasmRaised("allocate_register", 0, Len(instructions) + 1)
            /\ UNCHANGED <<instructions, label_counter, available_registers,
                           held_registers, released_registers>>
       ELSE LET register == next_free_register(available_registers)
            IN  /\ available_registers' = pool_after_allocate(available_registers, register)
                /\ held_registers' = held_registers \cup {register}
                /\ qasm_call' = QasmReturned("allocate_register", register, 0,
                                             Len(instructions) + 1)
                /\ UNCHANGED <<instructions, label_counter, released_registers>>

\* RegisterManager.free_register, for a register that is held
free_register ==
    /\ UNCHANGED <<builder_vars, factory_vars, stitched_vars, schedule_vars, waveform_vars, other_vars>>
    /\ Compiling
    /\ \E register \in held_registers :
        /\ available_registers' = available_registers \cup {register}
        /\ held_registers' = held_registers \ {register}
        /\ released_registers' = released_registers \cup {register}
        /\ qasm_call' = QasmReturned("free_register", register, 0, Len(instructions) + 1)
        /\ UNCHANGED <<instructions, label_counter>>

\* StitchedSquarePulseStrategy.insert_qasm: the gain is set, then a loop allocates
\* its register (which fails when the pool is empty), takes the next label, and
\* releases the register after the loop instruction.
insert_qasm ==
    /\ UNCHANGED <<builder_vars, factory_vars, stitched_vars, schedule_vars, waveform_vars, other_vars>>
    /\ Compiling
    /\ Len(instructions) + 7 <= MaxInstructions
    /\ \E duration \in StitchDurations :
        LET first == Len(instructions) + 1
            looped == uses_loop(duration \div PULSE_STITCHING_DURATION)
        IN  IF looped /\ available_registers = {}
            THEN /\ instructions' = Append(instructions,
                                        stitched_square_instructions(duration, 0, 0)[1])
                 /\ qasm_call' = QasmRaised("insert_qasm", duration, first)
                 /\ UNCHANGED <<label_counter, available_registers, held_registers,
                                released_registers>>
            ELSE LET register == IF looped THEN next_free_register(available_registers)
                                 ELSE 0
                     n == next_label_number(label_counter)
                 IN  /\ instructions' = instructions
                            \o stitched_square_instructions(duration, register, n)
                     /\ label_counter' = IF looped THEN n ELSE label_counter
                     /\ released_registers' = IF looped
                                              THEN released_registers \cup {register}
                                              ELSE released_registers
                     /\ qasm_call' = QasmReturned("insert_qasm", register, duration, first)
                     /\ UNCHANGED <<available_registers, held_registers>>

NextQasm ==
    \/ allocate_register
    \/ free_register
    \/ insert_qasm

SpecQasm == InitQasm /\ [][NextQasm]_vars

(***************************************************************************)
(* Properties of stitched square pulses and of the Register Manager        *)
(***************************************************************************)
InsertReturned == qasm_call.op = "insert_qasm" /\ qasm_call.raised = "none"

\* The lines the last insert_qasm appended
Inserted == SubSeq(instructions, qasm_call.first, Len(instructions))

IsPlay(ins, time) == ins.opcode = "play" /\ ins.args = <<0, 1, time>>

IsResetGain(ins) == ins.opcode = "set_awg_gain" /\ ins.args = <<0, 0>>

\* The time the lines seq[i..] play when run: a play between a move and its loop
\* instruction runs as often as the move says, any other play once
RECURSIVE PlayedFrom(_, _, _)
PlayedFrom(seq, i, count) ==
    IF i > Len(seq) THEN 0
    ELSE IF seq[i].opcode = "move" THEN PlayedFrom(seq, i + 1, seq[i].args[1])
    ELSE IF seq[i].opcode = "loop" THEN PlayedFrom(seq, i + 1, 1)
    ELSE IF seq[i].opcode = "play"
    THEN count * seq[i].args[3] + PlayedFrom(seq, i + 1, count)
    ELSE PlayedFrom(seq, i + 1, count)

\* C8: for a stitched square pulse of duration D and threshold T = 1000 ns,
\* insert_qasm emits a register-counted loop iff D div T >= 2; the counter is set to
\* D div T and the loop body is one play of T; a remainder D mod T > 0 is played
\* once, after the loop; below two repetitions there is no loop; the played time
\* is D in every case.
C8_LoopIffTwoRepetitions ==
    InsertReturned =>
        LET seq == Inserted
            T == PULSE_STITCHING_DURATION
            repetitions == qasm_call.duration \div T
            remaining == qasm_call.duration % T
            loops == {i \in 1..Len(seq) : seq[i].opcode = "loop"}
            moves == {i \in 1..Len(seq) : seq[i].opcode = "move"}
            labels == {i \in 1..Len(seq) : seq[i].label # NoLabel}
            plays == {i \in 1..Len(seq) : seq[i].opcode = "play"}
        IN  /\ (loops # {}) <=> (repetitions >= 2)
            /\ repetitions >= 2 =>
                   \E m \in 1..(Len(seq) - 3) :
                       /\ moves = {m} /\ labels = {m + 1} /\ loops = {m + 3}
                       /\ seq[m].args[1] = repetitions
                       /\ IsPlay(seq[m + 2], T)
                       /\ seq[m + 3].args = <<seq[m].args[2], seq[m + 1].label>>
                       /\ plays = {m + 2} \cup (IF remaining > 0 THEN {m + 4} ELSE {})
                       /\ remaining > 0 => IsPlay(seq[m + 4], remaining)
            /\ repetitions < 2 =>
                   /\ moves = {} /\ labels = {} /\ loops = {}
                   /\ remaining > 0 =>
                          Cardinality({i \in plays : IsPlay(seq[i], remaining)}) = 1
            /\ PlayedFrom(seq, 1, 1) = qasm_call.duration

\* C8 witness: a pulse of at least two thresholds with a remainder was inserted
C8_Witness ==
    /\ InsertReturned
    /\ qasm_call.duration \div PULSE_STITCHING_DURATION >= 2
    /\ qasm_call.duration % PULSE_STITCHING_DURATION > 0
    /\ \E i \in 1..Len(Inserted) : Inserted[i].opcode = "loop"

\* C9: the reset-gain instruction (set_awg_gain 0,0) is emitted, as the last
\* instruction, exactly when the sequence ends with a play outside a loop (duration
\* below two thresholds, or a remainder after the loop); for an exact multiple of
\* the threshold with at least two repetitions it is omitted and the sequence ends
\* with the loop instruction.
C9_ResetGainAfterTrailingPlay ==
    InsertReturned =>
        LET seq == Inserted
            repetitions == qasm_call.duration \div PULSE_STITCHING_DURATION
            remaining == qasm_call.duration % PULSE_STITCHING_DURATION
            resets == {i \in 1..Len(seq) : IsResetGain(seq[i])}
        IN  /\ (resets # {}) <=> (repetitions < 2 \/ remaining > 0)
            /\ resets # {} =>
                   /\ resets = {Len(seq)}
                   /\ seq[Len(seq) - 1].opcode = "play"
            /\ (repetitions >= 2 /\ remaining = 0) => seq[Len(seq)].opcode = "loop"

\* C9 witness: an exact multiple of the threshold, two repetitions or more, was
\* inserted and the sequence ends with the loop instruction
C9_Witness ==
    /\ InsertReturned
    /\ qasm_call.duration \div PULSE_STITCHING_DURATION >= 2
    /\ qasm_call.duration % PULSE_STITCHING_DURATION = 0
    /\ Inserted[Len(Inserted)].opcode = "loop"

\* C10: every held register is in [0, max_registers); an allocation never hands out
\* a register that is held; it fails iff max_registers registers are held; a
\* released register is back in the pool and is handed out again: an allocation
\* takes the lowest free register, so the one just released when no other is free.
C10_RegisterPool ==
    [][ LET c == qasm_call'
        IN  /\ held_registers \subseteq Registers
            /\ held_registers' \subseteq Registers
            /\ (c.op = "allocate_register" /\ c.raised = "none") =>
                   /\ c.ret \in Registers
                   /\ c.ret \notin held_registers
                   /\ held_registers' = held_registers \cup {c.ret}
                   /\ \A r \in Registers \ held_registers : c.ret <= r
                   /\ (qasm_call.op = "free_register"
                           /\ Cardinality(held_registers) = max_registers - 1) =>
                          c.ret = qasm_call.ret
            /\ c.op = "allocate_register" =>
                   (c.raised # "none" <=> Cardinality(held_registers) = max_registers)
            /\ c.op = "free_register" =>
                   /\ c.ret \in held_registers
                   /\ held_registers' = held_registers \ {c.ret}
                   /\ c.ret \in available_registers'
      ]_vars

\* C10 witness: an allocation handed out a register that had been released before
C10_Witness ==
    /\ qasm_call.op = "allocate_register"
    /\ qasm_call.raised = "none"
    /\ qasm_call.ret \in released_registers
    /\ qasm_call.ret \in held_registers

\* The lines of the program that carry a label, in program order
LabelLines == SelectSeq(instructions, LAMBDA ins : ins.label # NoLabel)

\* C21: within one program the n-th stitching loop has the label stitch{n}, n
\* counting up from 1, so no label occurs twice; every label line follows a move
\* that loads the count into a register Rk and is followed by a loop instruction
\* that names Rk and the label, and every loop instruction closes such a bracket.
C21_LoopLabelsAndBrackets ==
    /\ Len(LabelLines) = label_counter
    /\ \A n \in 1..Len(LabelLines) : LabelLines[n].label = StitchLabel(n)
    /\ \A a, b \in 1..Len(instructions) :
           (a # b /\ instructions[a].label # NoLabel) =>
               instructions[a].label # instructions[b].label
    /\ \A l \in 1..Len(instructions) :
           instructions[l].label # NoLabel =>
               /\ l > 1
               /\ instructions[l - 1].opcode = "move"
               /\ \E j \in (l + 1)..Len(instructions) :
                      /\ instructions[j].opcode = "loop"
                      /\ instructions[j].args
                             = <<instructions[l - 1].args[2], instructions[l].label>>
                      /\ \A i \in (l + 1)..(j - 1) :
                             instructions[i].opcode \notin {"move", "loop"}
    /\ \A j \in 1..Len(instructions) :
           instructions[j].opcode = "loop" =>
               \E l \in 2..(j - 1) :
                   /\ instructions[l].label = instructions[j].args[2]
                   /\ instructions[l - 1].opcode = "move"
                   /\ instructions[l - 1].args[2] = instructions[j].args[1]

\* C21 witness: a program with two stitching loops
C21_Witness ==
    /\ InsertReturned
    /\ label_counter = 2
    /\ Cardinality({i \in 1..Len(instructions) : instructions[i].opcode = "loop"}) = 2

(***************************************************************************)
(* StitchedPulse (operations/stitched_pulse.py)                            *)
(***************************************************************************)
MaxPulseInfo == 4
MaxEntriesPerOperation == 2

Ports == {"q0:mw", "q1:mw"}
Clocks == {"q0.01", "q1.01"}

\* One pulse_info entry, as far as StitchedPulse reads it
PulseInfos == [port : Ports, clock : Clocks]

\* operation["pulse_info"] of the Operation passed to add_pulse
PulseOperations == UNION {[1..n -> PulseInfos] : n \in 0..MaxEntriesPerOperation}

\* StitchedPulse._pulse_and_clock_match
pulse_and_clock_match(own_pulse_info, op_pulse_info) ==
    IF Len(own_pulse_info) = 0 THEN TRUE
    ELSE LET p == own_pulse_info[1].port
             c == own_pulse_info[1].clock
         IN  \A i \in 1..Len(op_pulse_info) :
                 ~(op_pulse_info[i].port # p \/ op_pulse_info[i].clock # c)

\* StitchedPulse(): pulse_info = []
InitStitched ==
    /\ pulse_info = <<>>
    /\ stitched_call = [op |-> "init", raised |-> "none"]
    /\ BuilderIdle
    /\ FactoryIdle
    /\ QasmIdle
    /\ ScheduleIdle
    /\ WaveformIdle
    /\ OtherIdle

\* StitchedPulse.add_pulse: raises when the check fails, else Operation.add_pulse
\* adds the pulse_info of pulse_operation to this Operation
StitchedPulse_add_pulse ==
    /\ UNCHANGED <<builder_vars, factory_vars, qasm_vars, schedule_vars, waveform_vars, other_vars>>
    /\ \E pulse_operation \in PulseOperations :
        IF ~pulse_and_clock_match(pulse_info, pulse_operation)
        THEN /\ stitched_call' = [op |-> "add_pulse", raised |-> "ValueError",
                                  before |-> pulse_info]
             /\ UNCHANGED pulse_info
        ELSE /\ Len(pulse_info) + Len(pulse_operation) <= MaxPulseInfo
             /\ pulse_info' = pulse_info \o pulse_operation
             /\ stitched_call' = [op |-> "add_pulse", raised |-> "none",
                                  before |-> pulse_info]

NextStitched == StitchedPulse_add_pulse

SpecStitched == InitStitched /\ [][NextStitched]_vars

\* C17: after any sequence of StitchedPulse.add_pulse calls from an empty
\* StitchedPulse, all pulse_info entries have the same port and the same clock, the
\* first operation with several entries included; an add_pulse that raises leaves
\* pulse_info as it was.
C17_OnePortAndClock ==
    /\ \A i, j \in 1..Len(pulse_info) :
           /\ pulse_info[i].port = pulse_info[j].port
           /\ pulse_info[i].clock = pulse_info[j].clock
    /\ (stitched_call.op = "add_pulse" /\ stitched_call.raised = "ValueError") =>
           pulse_info = stitched_call.before

(***************************************************************************)
(* Waveform utilities (helpers/waveforms.py)                               *)
(***************************************************************************)
MaxSamples == 3
MaxGranularity == 3
MaxStartTenths == 40

SampleValues == {0, 1}

\* A waveform array: its samples in order
Waveforms == UNION {[1..n -> SampleValues] : n \in 0..MaxSamples}

\* granularity / resolution arguments
Granularities == 1..MaxGranularity

\* clock_rate, in samples per ns
ClockRates == {1, 2}

\* start_in_seconds, in tenths of a ns
StartTimes == (0 - 12)..MaxStartTenths

\* np.zeros(n)
zeros(n) == [i \in 1..n |-> 0]

\* math.closest_number_ceil(number, multiple): the next multiple at or above number
closest_number_ceil(number, multiple) ==
    ((number + multiple - 1) \div multiple) * multiple

\* Mutant of resize_waveform: an empty waveform is returned as it is
resize_waveform_without_empty_case(waveform, granularity) ==
    LET size == Len(waveform)
    IN  IF size % granularity = 0 THEN waveform
        ELSE waveform \o zeros(closest_number_ceil(size, granularity) - size)

\* resize_waveform
resize_waveform(waveform, granularity) ==
    LET size == Len(waveform)
    IN  IF size = 0 THEN zeros(granularity)
        ELSE IF size % granularity = 0 THEN waveform
        ELSE LET remainder == closest_number_ceil(size, granularity) - size
             IN  waveform \o zeros(remainder)

\* round(x) of Python for x given in tenths: to the nearest integer, a tie to the
\* even one
round_tenths(x) ==
    LET q == x \div 10
        r == x % 10
    IN  IF r < 5 THEN q
        ELSE IF r > 5 THEN q + 1
        ELSE IF q % 2 = 0 THEN q ELSE q + 1

\* Mutant of shift_waveform: the zeros are put behind the waveform
shift_waveform_padding_behind(waveform, start_in_seconds, clock_rate, resolution) ==
    LET start_in_clocks == round_tenths(start_in_seconds * clock_rate)
        samples_shift == start_in_clocks % resolution
        start_in_lowres_clock == start_in_clocks \div resolution
    IN  <<start_in_lowres_clock, waveform \o zeros(samples_shift)>>

\* shift_waveform: (start_in_lowres_clock, waveform)
shift_waveform(waveform, start_in_seconds, clock_rate, resolution) ==
    LET start_in_clocks == round_tenths(start_in_seconds * clock_rate)
        samples_shift == start_in_clocks % resolution
        start_in_lowres_clock == start_in_clocks \div resolution
    IN  IF samples_shift = 0 THEN <<start_in_lowres_clock, waveform>>
        ELSE <<start_in_lowres_clock, zeros(samples_shift) \o waveform>>

WaveformNotCalled == [func |-> "none"]

\* The arguments of one call of resize_waveform or of shift_waveform
InitWaveform ==
    /\ \/ wf_args \in [func : {"resize_waveform"}, waveform : Waveforms,
                       granularity : Granularities]
       \/ wf_args \in [func : {"shift_waveform"}, waveform : Waveforms,
                       start_in_seconds : StartTimes, clock_rate : ClockRates,
                       resolution : Granularities]
    /\ wf_ret = WaveformNotCalled
    /\ BuilderIdle
    /\ FactoryIdle
    /\ QasmIdle
    /\ StitchedIdle
    /\ ScheduleIdle
    /\ OtherIdle

call_resize_waveform ==
    /\ UNCHANGED <<builder_vars, factory_vars, qasm_vars, stitched_vars, schedule_vars, other_vars>>
    /\ wf_args.func = "resize_waveform"
    /\ wf_ret = WaveformNotCalled
    /\ wf_ret' = [func |-> "resize_waveform",
                  waveform |-> resize_waveform(wf_args.waveform, wf_args.granularity)]
    /\ UNCHANGED wf_args

call_shift_waveform ==
    /\ UNCHANGED <<builder_vars, factory_vars, qasm_vars, stitched_vars, schedule_vars, other_vars>>
    /\ wf_args.func = "shift_waveform"
    /\ wf_ret = WaveformNotCalled
    /\ LET r == shift_waveform(wf_args.waveform, wf_args.start_in_seconds,
                               wf_args.clock_rate, wf_args.resolution)
       IN  wf_ret' = [func |-> "shift_waveform", clock |-> r[1], waveform |-> r[2]]
    /\ UNCHANGED wf_args

NextWaveform ==
    \/ call_resize_waveform
    \/ call_shift_waveform

SpecWaveform == InitWaveform /\ [][NextWaveform]_vars

\* C14: for a waveform of length size >= 0 and granularity g >= 1, resize_waveform
\* returns a waveform whose length is the least multiple of g that is at least
\* max(size, 1), i.e. ceil(max(size,1)/g)*g, whose first size samples are the input
\* samples in order and whose other samples are zero; resizing the output again
\* returns it unchanged.
C14_ResizeToGranularity ==
    wf_ret.func = "resize_waveform" =>
        LET waveform == wf_args.waveform
            g == wf_args.granularity
            size == Len(waveform)
            least == IF size >= 1 THEN size ELSE 1
            out == wf_ret.waveform
        IN  /\ Len(out) % g = 0
            /\ Len(out) >= least
            /\ Len(out) - g < least
            /\ \A i \in 1..size : out[i] = waveform[i]
            /\ \A i \in (size + 1)..Len(out) : out[i] = 0
            /\ resize_waveform(out, g) = out

\* C14 witness: a waveform whose length is no multiple of the granularity was resized
C14_Witness ==
    /\ wf_ret.func = "resize_waveform"
    /\ Len(wf_args.waveform) = 2
    /\ wf_args.granularity = 3
    /\ wf_args.waveform[1] = 1
    /\ Len(wf_ret.waveform) = 3

\* C15: shift_waveform returns a coarse clock index c and the waveform behind p zero
\* samples, where start_clocks, the start time in whole sample clocks (the product
\* start_in_seconds * clock_rate rounded to the nearest integer), is
\* c*resolution + p with 0 <= p < resolution: c = floor(start_clocks/resolution),
\* p = start_clocks mod resolution; the output is p samples longer than the input.
C15_ShiftToCoarseClock ==
    wf_ret.func = "shift_waveform" =>
        LET waveform == wf_args.waveform
            resolution == wf_args.resolution
            product == wf_args.start_in_seconds * wf_args.clock_rate
            c == wf_ret.clock
            out == wf_ret.waveform
            p == Len(out) - Len(waveform)
            start_clocks == c * resolution + p
        IN  /\ 0 <= p /\ p < resolution
            /\ Abs(10 * start_clocks - product) <= 5
            /\ \A i \in 1..p : out[i] = 0
            /\ \A i \in 1..Len(waveform) : out[p + i] = waveform[i]

\* C15 witness: a waveform that starts off the coarse grid was shifted
C15_Witness ==
    /\ wf_ret.func = "shift_waveform"
    /\ wf_ret.clock > 0
    /\ Len(wf_ret.waveform) > Len(wf_args.waveform)
    /\ Len(wf_args.waveform) > 0
    /\ wf_args.waveform[1] = 1

(***************************************************************************)
(* Schedule, Schedulable (schedules/schedule.py) and the resolution of     *)
(* absolute times (described by spec.md 4.1 only)                          *)
(***************************************************************************)
MaxSchedulables == 2
MaxConstraints == 3

\* Operation.hash of the operations that are added, and an object that is no Operation
Operations == {"op_a", "op_b"}
OperationArgs == Operations \cup {"not_an_operation"}

\* Operation.duration, in ns
duration_of(operation_id) == IF operation_id = "op_a" THEN 4 ELSE 10

\* Schedule(repetitions=...)
repetitions == 2

\* label argument of Schedule.add; None stands for a label from uuid4
LabelArgs == {None, "A"}

\* str(uuid4()) for the n-th schedulable: a label no schedulable has yet
uuid4(n) == <<"uuid-1", "uuid-2", "uuid-3", "uuid-4", "uuid-5", "uuid-6">>[n]

\* (rel_time, ref_pt, ref_pt_new) arguments
TimingArgs ==
    {<<0, None, None>>, <<0, "end", "start">>, <<6, "center", "center">>,
     <<6, "start", "end">>}

\* ref_op argument of Schedule.add: None, a label, or a Schedulable object; a
\* Schedulable is an object of this schedule or of another one
NoRef == [kind |-> "None", name |-> None, owner |-> None]
RefOpArgs ==
    {NoRef}
        \cup [kind : {"str"}, name : {"A", "uuid-1", "missing"}, owner : {None}]
        \cup [kind : {"Schedulable"}, name : {"A", "uuid-1"}, owner : {"this", "other"}]

NoAbsTime == <<>>

\* The keys of Schedule.schedulables
Names(scheds) == {scheds[i].name : i \in 1..Len(scheds)}

\* The position of the schedulable with this name, 0 if there is none
IndexOf(scheds, name) ==
    IF name \in Names(scheds)
    THEN CHOOSE i \in 1..Len(scheds) : scheds[i].name = name
    ELSE 0

\* The number of timing constraints the schedule holds
RECURSIVE NumConstraints(_)
NumConstraints(scheds) ==
    IF scheds = <<>> THEN 0
    ELSE Len(scheds[1].timing_constraints) + NumConstraints(Tail(scheds))

\* str(ref_schedulable), None staying None
ref_name(ref_op) == IF ref_op.kind = "None" THEN None ELSE ref_op.name

\* The timing_constr dict of Schedulable.add_timing_constraint
timing_constr(rel_time, ref_schedulable, ref_pt, ref_pt_new) ==
    [rel_time |-> rel_time, ref_schedulable |-> ref_name(ref_schedulable),
     ref_pt_new |-> ref_pt_new, ref_pt |-> ref_pt]

\* Schedulable(name, operation_repr) followed by add_timing_constraint
Schedulable(name, operation_repr, constr) ==
    [name |-> name, operation_repr |-> operation_repr,
     timing_constraints |-> <<constr>>, abs_time |-> NoAbsTime]

\* Mutant of label_is_used: the label is not looked up
label_never_used(scheds, label) == FALSE

\* `label in self.schedulables`
label_is_used(scheds, label) == label \in Names(scheds)

\* Mutant of ref_op_is_missing: a Schedulable is looked up by its label only
ref_op_is_missing_by_label(scheds, ref_op) ==
    /\ ref_op.kind # "None"
    /\ ref_op.name \notin Names(scheds)

\* Mutant of ref_op_is_missing: ref_op is not looked up
ref_op_never_missing(scheds, ref_op) == FALSE

\* The test on ref_op in Schedule.add: it is given and is no schedulable of this
\* schedule.  A Schedulable object of this schedule is the value stored under its
\* label; one of another schedule is never that object.
ref_op_is_missing(scheds, ref_op) ==
    /\ ref_op.kind # "None"
    /\ \/ (ref_op.kind = "str" /\ ref_op.name \notin Names(scheds))
       \/ (ref_op.kind = "Schedulable"
              /\ ~(ref_op.name \in Names(scheds) /\ ref_op.owner = "this"))

\* self.schedulables.update({label: element})
schedulables_update(scheds, element) ==
    IF element.name \in Names(scheds)
    THEN [scheds EXCEPT ![IndexOf(scheds, element.name)] = element]
    ELSE Append(scheds, element)

\* The last call: `adds` counts the add calls that returned, `rerun` says that
\* the resolution ran on what a resolution had just returned
\* and `ref_op` is the ref_op argument of an add call
ScheduleReturned(op) ==
    [op |-> op, raised |-> "none", adds |-> schedule_call.adds, rerun |-> FALSE,
     ref_op |-> NoRef]
ScheduleRaised(op, exc) ==
    [op |-> op, raised |-> exc, adds |-> schedule_call.adds, rerun |-> FALSE,
     ref_op |-> NoRef]

\* Schedule(name)
InitSchedule ==
    /\ operation_dict = {}
    /\ schedulables = <<>>
    /\ schedule_call = [op |-> "init", raised |-> "none", adds |-> 0, rerun |-> FALSE,
                        ref_op |-> NoRef]
    /\ BuilderIdle
    /\ FactoryIdle
    /\ QasmIdle
    /\ StitchedIdle
    /\ WaveformIdle
    /\ OtherIdle

\* Schedule.add
\* The rel_time, ref_pt, ref_pt_new arguments that Schedule.add is called with
AddTimingArgs == {<<0, None, None>>, <<6, "center", "center">>}

Schedule_add ==
    /\ UNCHANGED <<builder_vars, factory_vars, qasm_vars, stitched_vars, waveform_vars, other_vars>>
    /\ \E operation \in OperationArgs, timing \in AddTimingArgs, ref_op \in RefOpArgs,
          label_arg \in LabelArgs :
        LET label == IF label_arg = None THEN uuid4(Len(schedulables) + 1) ELSE label_arg
            element == Schedulable(label, operation,
                           timing_constr(timing[1], ref_op, timing[2], timing[3]))
        IN  \* a Schedulable of this schedule can only be passed when it exists
            /\ (ref_op.kind = "Schedulable" /\ ref_op.owner = "this") =>
                   ref_op.name \in Names(schedulables)
            /\ IF operation \notin Operations
                  \/ label_is_used(schedulables, label)
                  \/ ref_op_is_missing(schedulables, ref_op)
               THEN /\ schedule_call' =
                           [ScheduleRaised("add", "ValueError") EXCEPT !.ref_op = ref_op]
                    /\ UNCHANGED <<operation_dict, schedulables>>
               ELSE /\ Len(schedulables) < MaxSchedulables
                    /\ operation_dict' = operation_dict \cup {operation}
                    /\ schedulables' = schedulables_update(schedulables, element)
                    /\ schedule_call' =
                           [ScheduleReturned("add") EXCEPT !.adds = schedule_call.adds + 1,
                                                           !.ref_op = ref_op]

\* Schedulable.add_timing_constraint on a schedulable of the schedule
Schedulable_add_timing_constraint ==
    /\ UNCHANGED <<builder_vars, factory_vars, qasm_vars, stitched_vars, waveform_vars, other_vars>>
    /\ \E i \in 1..Len(schedulables), timing \in TimingArgs, ref_schedulable \in RefOpArgs :
        /\ ref_schedulable.kind # "Schedulable"
        /\ NumConstraints(schedulables) < MaxConstraints
        /\ schedulables' =
               [schedulables EXCEPT ![i].timing_constraints =
                   Append(@, timing_constr(timing[1], ref_schedulable, timing[2], timing[3]))]
        /\ schedule_call' = ScheduleReturned("add_timing_constraint")
        /\ UNCHANGED operation_dict

\* Mutant of corr: the center counts as the start
corr_without_center(pt, duration) == IF pt = "end" THEN duration ELSE 0

\* Point correction: 0 for "start", half the duration for "center", the duration
\* for "end"
corr(pt, duration) ==
    IF pt = "start" THEN 0
    ELSE IF pt = "center" THEN duration \div 2
    ELSE duration

\* The position a timing constraint of the k-th schedulable refers to: the
\* schedulable added before it when no reference is given
ref_index(scheds, k, constr) ==
    IF constr.ref_schedulable = None THEN k - 1
    ELSE IndexOf(scheds, constr.ref_schedulable)

\* The absolute time one timing constraint of the k-th schedulable yields
constraint_time(scheds, k, constr) ==
    LET ref == scheds[ref_index(scheds, k, constr)]
        ref_pt == IF constr.ref_pt = None THEN "end" ELSE constr.ref_pt
        ref_pt_new == IF constr.ref_pt_new = None THEN "start" ELSE constr.ref_pt_new
    IN  ref.abs_time[1] + corr(ref_pt, duration_of(ref.operation_repr))
            + constr.rel_time - corr(ref_pt_new, duration_of(scheds[k].operation_repr))

\* Mutant of latest: the time of the constraint added first
first_of(times) == times[1]

\* The latest (maximum) of the times the constraints yield
latest(times) == SetMax({times[j] : j \in 1..Len(times)})

\* The single pass in insertion order, from the k-th schedulable on: the first
\* schedulable is the root at time 0; a reference to a label that does not exist
\* is a timing error, one to a schedulable that is not resolved before the k-th is
\* an ordering error
RECURSIVE resolve_from(_, _)
resolve_from(scheds, k) ==
    IF k > Len(scheds) THEN [raised |-> "none", schedulables |-> scheds]
    ELSE IF k = 1 THEN resolve_from([scheds EXCEPT ![1].abs_time = <<0>>], 2)
    ELSE
        LET constraints == scheds[k].timing_constraints
            refs == {ref_index(scheds, k, constraints[j]) : j \in 1..Len(constraints)}
        IN  IF 0 \in refs THEN [raised |-> "TimingError", schedulables |-> scheds]
            ELSE IF \E r \in refs : r >= k
            THEN [raised |-> "OrderingError", schedulables |-> scheds]
            ELSE LET times == [j \in 1..Len(constraints) |->
                                  constraint_time(scheds, k, constraints[j])]
                 IN  resolve_from([scheds EXCEPT ![k].abs_time = <<latest(times)>>], k + 1)

\* Mutant of resolve: the time a schedulable already carries is added to the new one
resolve_accumulating(scheds) ==
    LET r == resolve_from(scheds, 1)
    IN  [r EXCEPT !.schedulables =
            [i \in 1..Len(scheds) |->
                IF scheds[i].abs_time = NoAbsTime THEN r.schedulables[i]
                ELSE [r.schedulables[i] EXCEPT
                         !.abs_time = <<r.schedulables[i].abs_time[1] + scheds[i].abs_time[1]>>]]]

\* The resolution of a whole schedule
resolve(scheds) == resolve_from(scheds, 1)

\* Absolute timing resolution of the schedule; an error leaves no partial output
determine_absolute_timing ==
    /\ UNCHANGED <<builder_vars, factory_vars, qasm_vars, stitched_vars, waveform_vars, other_vars>>
    /\ LET r == resolve(schedulables)
           again == schedule_call.op = "determine_absolute_timing"
                        /\ schedule_call.raised = "none"
       IN  IF r.raised # "none"
           THEN /\ schedule_call' = ScheduleRaised("determine_absolute_timing", r.raised)
                /\ UNCHANGED <<operation_dict, schedulables>>
           ELSE /\ schedulables' = r.schedulables
                /\ schedule_call' =
                       [ScheduleReturned("determine_absolute_timing") EXCEPT !.rerun = again]
                /\ UNCHANGED operation_dict

\* ScheduleBase.get_schedule_duration of a schedule whose schedulables have abs_time
get_schedule_duration(scheds) ==
    LET ends == {scheds[i].abs_time[1] + duration_of(scheds[i].operation_repr) :
                     i \in 1..Len(scheds)}
        schedule_duration == IF \E e \in ends : e > 0 THEN SetMax(ends) ELSE 0
    IN  schedule_duration * repetitions

NextSchedule == Schedule_add

SpecSchedule == InitSchedule /\ [][NextSchedule]_vars

(***************************************************************************)
(* Properties of Schedule.add                                              *)
(***************************************************************************)
\* C19: Schedule.add raises ValueError when the object is no Operation, when the
\* label is already used in this schedule, or when ref_op is a label or a
\* Schedulable that is no schedulable of this schedule (a Schedulable of another
\* schedule with the same label included): an add that returns had none of these;
\* an add that raises leaves operations and schedulables as they were.
C19_AddRejectsAndKeepsState ==
    [][ schedule_call'.op = "add" =>
            /\ schedule_call'.raised = "none" =>
                   LET new == schedulables'[Len(schedulables')]
                       ref_op == schedule_call'.ref_op
                   IN  /\ new.operation_repr \in Operations
                       /\ new.name \notin Names(schedulables)
                       /\ \/ ref_op.kind = "None"
                          \/ /\ ref_op.name \in Names(schedulables)
                             /\ ref_op.owner # "other"
            /\ schedule_call'.raised # "none" =>
                   /\ schedule_call'.raised = "ValueError"
                   /\ operation_dict' = operation_dict
                   /\ schedulables' = schedulables
      ]_vars

\* C19 witness: an add was rejected whose ref_op is a Schedulable of another
\* schedule with a label that this schedule has too
C19_Witness ==
    /\ schedule_call.op = "add"
    /\ schedule_call.raised = "ValueError"
    /\ schedule_call.ref_op.kind = "Schedulable"
    /\ schedule_call.ref_op.owner = "other"
    /\ schedule_call.ref_op.name \in Names(schedulables)

\* What C20 says of one state of the schedule
ScheduleConsistent(scheds, ops, adds) ==
    /\ Len(scheds) = adds
    /\ \A i, j \in 1..Len(scheds) : i # j => scheds[i].name # scheds[j].name
    /\ ops = {scheds[i].operation_repr : i \in 1..Len(scheds)}
    /\ \A i \in 1..Len(scheds) : scheds[i].operation_repr \in ops

\* C20: after any sequence of Schedule.add calls the number of schedulables is the
\* number of add calls that returned, no schedulable is ever removed, the labels
\* are pairwise distinct, the operations dictionary has one entry per distinct hash
\* that was added (an add with a hash that is present adds none), and every
\* operation_repr is a key of the operations dictionary.
C20_ScheduleBookkeeping ==
    [][ /\ ScheduleConsistent(schedulables', operation_dict', schedule_call'.adds)
        /\ Len(schedulables') >= Len(schedulables)
        /\ \A i \in 1..Len(schedulables) : schedulables'[i] = schedulables[i]
        /\ (schedule_call'.op = "add" /\ schedule_call'.raised = "none") =>
               LET new == schedulables'[Len(schedulables')]
               IN  /\ Len(schedulables') = Len(schedulables) + 1
                   /\ operation_dict' = operation_dict \cup {new.operation_repr}
                   /\ new.operation_repr \in operation_dict =>
                          Cardinality(operation_dict') = Cardinality(operation_dict)
      ]_vars

\* C20 witness: two schedulables were added with the same operation
C20_Witness ==
    /\ schedule_call.op = "add"
    /\ schedule_call.raised = "none"
    /\ Len(schedulables) = 2
    /\ schedulables[1].operation_repr = schedulables[2].operation_repr
    /\ Cardinality(operation_dict) = 1

\* C29: every timing constraint created through Schedule.add refers to no
\* schedulable (None) or to a schedulable that an earlier add call put into the same
\* schedule, so there is no forward reference and no cycle, and the resolution pass
\* in insertion order meets no missing and no unresolved reference.
C29_AddReferencesEarlierSchedulables ==
    /\ \A i \in 1..Len(schedulables) :
           \A j \in 1..Len(schedulables[i].timing_constraints) :
               LET ref == schedulables[i].timing_constraints[j].ref_schedulable
               IN  \/ ref = None
                   \/ \E k \in 1..(i - 1) : schedulables[k].name = ref
    /\ resolve(schedulables).raised = "none"

\* C29 witness: the second schedulable was added with a reference to the first
C29_Witness ==
    /\ schedule_call.op = "add"
    /\ schedule_call.raised = "none"
    /\ Len(schedulables) = 2
    /\ schedulables[2].timing_constraints[1].ref_schedulable = schedulables[1].name

(***************************************************************************)
(* Absolute timing resolution on the schedules Schedule.add builds         *)
(***************************************************************************)
\* The schedules that calls of Schedule.add without a label build from `scheds` by
\* one more call: the first schedulable with the default timing arguments
Extensions(scheds) ==
    {Append(scheds, Schedulable(uuid4(Len(scheds) + 1), operation,
                        timing_constr(timing[1], ref_op, timing[2], timing[3]))) :
        operation \in Operations,
        timing \in (IF scheds = <<>> THEN {<<0, None, None>>} ELSE TimingArgs),
        ref_op \in {r \in RefOpArgs : r.kind # "Schedulable"
                                        /\ ~ref_op_is_missing(scheds, r)}}

RECURSIVE BuiltSchedules(_)
BuiltSchedules(n) ==
    IF n = 0 THEN {<<>>}
    ELSE LET shorter == BuiltSchedules(n - 1)
         IN  shorter \cup UNION {Extensions(scheds) : scheds \in shorter}

\* A schedule of one or more schedulables, not resolved yet
InitTiming ==
    /\ schedulables \in {scheds \in BuiltSchedules(MaxSchedulables) : Len(scheds) >= 1}
    /\ operation_dict = {schedulables[i].operation_repr : i \in 1..Len(schedulables)}
    /\ schedule_call = [op |-> "init", raised |-> "none", adds |-> Len(schedulables),
                        rerun |-> FALSE, ref_op |-> NoRef]
    /\ BuilderIdle
    /\ FactoryIdle
    /\ QasmIdle
    /\ StitchedIdle
    /\ WaveformIdle
    /\ OtherIdle

NextTiming ==
    \/ Schedulable_add_timing_constraint
    \/ determine_absolute_timing

SpecTiming == InitTiming /\ [][NextTiming]_vars

Resolved ==
    /\ schedule_call.op = "determine_absolute_timing"
    /\ schedule_call.raised = "none"

\* The schedulable a timing constraint of the i-th schedulable refers to
Reference(i, constr) ==
    IF constr.ref_schedulable = None THEN schedulables[i - 1]
    ELSE schedulables[IndexOf(schedulables, constr.ref_schedulable)]

\* corr of the claim: 0 for start, half the duration for center, the duration for end
PointCorrection(pt, duration) ==
    CASE pt = "start" -> 0
      [] pt = "center" -> duration \div 2
      [] pt = "end" -> duration

\* The start time one timing constraint of the i-th schedulable asks for
RequiredTime(i, constr) ==
    LET ref == Reference(i, constr)
        ref_pt == IF constr.ref_pt = None THEN "end" ELSE constr.ref_pt
        ref_pt_new == IF constr.ref_pt_new = None THEN "start" ELSE constr.ref_pt_new
    IN  ref.abs_time[1] + PointCorrection(ref_pt, duration_of(ref.operation_repr))
            + constr.rel_time
            - PointCorrection(ref_pt_new, duration_of(schedulables[i].operation_repr))

\* C11: a resolved schedulable with one timing constraint starts at
\* abs_time(ref) + corr(ref_pt, duration(ref)) + rel_time - corr(ref_pt_new,
\* duration(new)), ref_pt None counting as end and ref_pt_new None as start; with
\* rel_time = 0, ref_pt = end, ref_pt_new = start it starts at the reference's
\* absolute time plus the reference's duration.
C11_SingleConstraintTime ==
    Resolved =>
        \A i \in 2..Len(schedulables) :
            Len(schedulables[i].timing_constraints) = 1 =>
                LET constr == schedulables[i].timing_constraints[1]
                    ref == Reference(i, constr)
                IN  /\ schedulables[i].abs_time = <<RequiredTime(i, constr)>>
                    /\ (constr.rel_time = 0 /\ constr.ref_pt = "end"
                            /\ constr.ref_pt_new = "start") =>
                           schedulables[i].abs_time[1] =
                               ref.abs_time[1] + duration_of(ref.operation_repr)

\* C11 witness: a resolved chain of two whose second schedulable has the one
\* constraint rel_time = 0, ref_pt = end, ref_pt_new = start
C11_Witness ==
    /\ Resolved
    /\ Len(schedulables) = 2
    /\ Len(schedulables[2].timing_constraints) = 1
    /\ schedulables[2].timing_constraints[1].rel_time = 0
    /\ schedulables[2].timing_constraints[1].ref_pt = "end"
    /\ schedulables[2].timing_constraints[1].ref_pt_new = "start"
    /\ schedulables[2].abs_time[1] = duration_of(schedulables[1].operation_repr)

\* C12: the resolved absolute time of a schedulable with several timing
\* constraints is the maximum of the times its constraints ask for, so it is not
\* earlier than the time any one of them asks for.
C12_LatestConstraintWins ==
    Resolved =>
        \A i \in 2..Len(schedulables) :
            LET constraints == schedulables[i].timing_constraints
                abs_time == schedulables[i].abs_time[1]
            IN  /\ \A j \in 1..Len(constraints) : abs_time >= RequiredTime(i, constraints[j])
                /\ \E j \in 1..Len(constraints) : abs_time = RequiredTime(i, constraints[j])

\* C12 witness: a resolved schedulable with two constraints, the second of which
\* asks for the later time
C12_Witness ==
    /\ Resolved
    /\ Len(schedulables) = 2
    /\ Len(schedulables[2].timing_constraints) = 2
    /\ RequiredTime(2, schedulables[2].timing_constraints[1])
           < RequiredTime(2, schedulables[2].timing_constraints[2])

\* C13: resolving a schedule that a resolution has just returned returns too,
\* leaves every absolute time as it is and gives the same schedule duration.
C13_ResolutionIdempotent ==
    [][ (Resolved /\ schedule_call'.op = "determine_absolute_timing") =>
            /\ schedule_call'.raised = "none"
            /\ schedulables' = schedulables
            /\ get_schedule_duration(schedulables') = get_schedule_duration(schedulables)
      ]_vars

\* C13 witness: a chain of two with a second schedulable off time 0 was resolved twice
C13_Witness ==
    /\ Resolved
    /\ schedule_call.rerun
    /\ Len(schedulables) = 2
    /\ schedulables[2].abs_time[1] > 0

(***************************************************************************)
(* SequencerSettings.initialize_from_config_dict (backends/types/qblox.py) *)
(* A configured value is a number, the float NaN, or None; a key may be    *)
(* absent.  The mixer amplitude ratio is counted in tenths.                *)
(***************************************************************************)
\* The number of keys that the sequencer configuration dict sets
MaxConfigured == 2

\* The hardware limits of the Qblox constants module
MIN_MIXER_PHASE_ERROR_DEG == -45
MAX_MIXER_PHASE_ERROR_DEG == 45
MIN_MIXER_AMP_RATIO == 5
MAX_MIXER_AMP_RATIO == 20
MIN_DISCRETIZATION_THRESHOLD_ACQ == -16777212
MAX_DISCRETIZATION_THRESHOLD_ACQ == 16777212
MIN_PHASE_ROTATION_ACQ == 0
MAX_PHASE_ROTATION_ACQ == 360

Num(x) == [kind |-> "num", v |-> x]
NaN == [kind |-> "nan", v |-> 0]
NoValue == [kind |-> "none", v |-> 0]
NotConfigured == [kind |-> "absent", v |-> 0]

\* The param_name arguments of the calls of extract_and_verify_range, in call order
ParamNames ==
    <<"init_offset_awg_path_0", "init_offset_awg_path_1", "init_gain_awg_path_0",
      "init_gain_awg_path_1", "mixer_phase_error_deg", "mixer_amp_ratio",
      "thresholded_acq_threshold", "thresholded_acq_rotation">>

Params == {ParamNames[i] : i \in 1..Len(ParamNames)}

\* The min_value argument of the call for a parameter
min_value_of(param_name) ==
    CASE param_name = "mixer_phase_error_deg" -> MIN_MIXER_PHASE_ERROR_DEG
      [] param_name = "mixer_amp_ratio" -> MIN_MIXER_AMP_RATIO
      [] param_name = "thresholded_acq_threshold" -> MIN_DISCRETIZATION_THRESHOLD_ACQ
      [] param_name = "thresholded_acq_rotation" -> MIN_PHASE_ROTATION_ACQ
      [] OTHER -> -1

\* The max_value argument of the call for a parameter
max_value_of(param_name) ==
    CASE param_name = "mixer_phase_error_deg" -> MAX_MIXER_PHASE_ERROR_DEG
      [] param_name = "mixer_amp_ratio" -> MAX_MIXER_AMP_RATIO
      [] param_name = "thresholded_acq_threshold" -> MAX_DISCRETIZATION_THRESHOLD_ACQ
      [] param_name = "thresholded_acq_rotation" -> MAX_PHASE_ROTATION_ACQ
      [] OTHER -> 1

\* The default_value argument of the call for a parameter
default_value_of(param_name) ==
    CASE param_name \in {"init_offset_awg_path_0", "init_offset_awg_path_1"} -> Num(0)
      [] param_name \in {"init_gain_awg_path_0", "init_gain_awg_path_1"} -> Num(1)
      [] param_name = "mixer_phase_error_deg" -> Num(0)
      [] param_name = "mixer_amp_ratio" -> Num(10)
      [] OTHER -> NoValue

\* The values a configuration gives a parameter: just outside and on each end of
\* its range, NaN and None
ConfiguredValues(param_name) ==
    {Num(min_value_of(param_name) - 1), Num(min_value_of(param_name)),
     Num(max_value_of(param_name)), Num(max_value_of(param_name) + 1), NaN, NoValue}

\* The sequencer configuration dicts that set at most MaxConfigured of the keys
SequencerConfigs ==
    UNION {
        {[p \in Params |-> IF p \in keys THEN chosen[p] ELSE NotConfigured] :
            chosen \in {f \in [keys -> UNION {ConfiguredValues(p) : p \in keys}] :
                           \A p \in keys : f[p] \in ConfiguredValues(p)}} :
        keys \in {k \in SUBSET Params : Cardinality(k) <= MaxConfigured}}

\* `a < b` of Python for a float a and a number b: False when a is NaN
float_lt(a, b) == a.kind = "num" /\ a.v < b

\* `a > b` of Python for a float a and a number b: False when a is NaN
float_gt(a, b) == a.kind = "num" /\ a.v > b

\* extract_and_verify_range
extract_and_verify_range(param_name, settings, default_value, min_value, max_value) ==
    LET val == IF settings[param_name] = NotConfigured THEN default_value
               ELSE settings[param_name]
    IN  IF val = NoValue THEN [raised |-> "none", val |-> val]
        ELSE IF float_lt(val, min_value) \/ float_gt(val, max_value)
        THEN [raised |-> "ValueError", val |-> val]
        ELSE [raised |-> "none", val |-> val]

InitSettings ==
    /\ sequencer_cfg \in SequencerConfigs
    /\ sequencer_settings = [raised |-> "pending"]
    /\ BuilderIdle
    /\ FactoryIdle
    /\ QasmIdle
    /\ StitchedIdle
    /\ ScheduleIdle
    /\ WaveformIdle
    /\ PulseLibraryIdle
    /\ ZhinstIdle
    /\ CoordinatorIdle

\* SequencerSettings.initialize_from_config_dict: the first value out of its range
\* raises, otherwise the record is built from the extracted values
initialize_from_config_dict ==
    /\ UNCHANGED <<builder_vars, factory_vars, qasm_vars, stitched_vars, schedule_vars,
                   waveform_vars, pulse_library_vars, zhinst_vars, coordinator_vars>>
    /\ sequencer_settings.raised = "pending"
    /\ LET extracted ==
               [p \in Params |->
                   extract_and_verify_range(p, sequencer_cfg, default_value_of(p),
                                            min_value_of(p), max_value_of(p))]
       IN  IF \E p \in Params : extracted[p].raised = "ValueError"
           THEN sequencer_settings' = [raised |-> "ValueError"]
           ELSE sequencer_settings' =
                    [raised |-> "none", settings |-> [p \in Params |-> extracted[p].val]]
    /\ UNCHANGED sequencer_cfg

NextSettings == initialize_from_config_dict

SpecSettings == InitSettings /\ [][NextSettings]_vars

\* C23: every configured numeric value is range-checked: a value outside its range
\* raises ValueError and no record is returned, so in every returned record the
\* init offsets and gains, the mixer phase error and amplitude ratio and the
\* thresholded-acquisition threshold and rotation are unset (None) or within
\* [min_value, max_value].
C23_ReturnedSettingsInRange ==
    sequencer_settings.raised = "none" =>
        \A p \in Params :
            LET val == sequencer_settings.settings[p]
            IN  \/ val = NoValue
                \/ /\ val.kind = "num"
                   /\ min_value_of(p) <= val.v
                   /\ val.v <= max_value_of(p)

(***************************************************************************)
(* decompose_long_square_pulse (quantify/scheduler/pulse_library.py).      *)
(* Durations are integers in seconds.                                      *)
(***************************************************************************)
\* The longest duration and duration_max that are passed
MaxLongDuration == 8

\* max_value of the validator of duration: 7 days
MaxValidDuration == 7 * 24 * 3600

LongDurations == (-1)..MaxLongDuration

\* validators.Numbers(min_value, max_value).validate(value) accepts the value
Numbers_validate(min_value, max_value, value) == min_value <= value /\ value <= max_value

\* [SquarePulse(duration=d, **kwargs) for _ in range(n)], as the list of durations
RECURSIVE square_pulses(_, _)
square_pulses(n, d) == IF n <= 0 THEN <<>> ELSE <<d>> \o square_pulses(n - 1, d)

\* decompose_long_square_pulse: the validators raise ValueError, `%` by zero raises
\* ZeroDivisionError, otherwise the list of pulses is returned
decompose_long_square_pulse(duration, duration_max, single_duration) ==
    IF ~Numbers_validate(0, MaxValidDuration, duration)
    THEN [raised |-> "ValueError", pulses |-> <<>>]
    ELSE IF ~Numbers_validate(0, duration, duration_max)
    THEN [raised |-> "ValueError", pulses |-> <<>>]
    ELSE IF duration_max = 0
    THEN [raised |-> "ZeroDivisionError", pulses |-> <<>>]
    ELSE
        LET duration_last_pulse == duration % duration_max
            num_pulses == duration \div duration_max
            pulses_ == square_pulses(num_pulses, duration_max)
        IN  [raised |-> "none",
             pulses |-> IF duration_last_pulse # 0
                        THEN Append(pulses_, IF single_duration THEN duration_max
                                             ELSE duration_last_pulse)
                        ELSE pulses_]

InitPulseLibrary ==
    /\ decompose_args \in
           [duration : LongDurations, duration_max : LongDurations,
            single_duration : BOOLEAN]
    /\ decompose_ret = [raised |-> "pending"]
    /\ BuilderIdle
    /\ FactoryIdle
    /\ QasmIdle
    /\ StitchedIdle
    /\ ScheduleIdle
    /\ WaveformIdle
    /\ SettingsIdle
    /\ ZhinstIdle
    /\ CoordinatorIdle

call_decompose_long_square_pulse ==
    /\ UNCHANGED <<builder_vars, factory_vars, qasm_vars, stitched_vars, schedule_vars,
                   waveform_vars, settings_vars, zhinst_vars, coordinator_vars>>
    /\ decompose_ret.raised = "pending"
    /\ decompose_ret' = decompose_long_square_pulse(decompose_args.duration,
                            decompose_args.duration_max, decompose_args.single_duration)
    /\ UNCHANGED decompose_args

NextPulseLibrary == call_decompose_long_square_pulse

SpecPulseLibrary == InitPulseLibrary /\ [][NextPulseLibrary]_vars

RECURSIVE SumSeq(_)
SumSeq(seq) == IF seq = <<>> THEN 0 ELSE seq[1] + SumSeq(Tail(seq))

\* C24: for every duration and duration_max with 0 <= duration and
\* 0 <= duration_max <= duration the function returns floor(duration/duration_max)
\* pulses of duration duration_max and one more iff the remainder is not zero; with
\* single_duration False the last one has the remainder as duration and the
\* durations add up to duration, with single_duration True all have duration_max.
C24_DecomposeLongSquarePulse ==
    LET duration == decompose_args.duration
        duration_max == decompose_args.duration_max
    IN  (decompose_ret.raised # "pending" /\ 0 <= duration
            /\ 0 <= duration_max /\ duration_max <= duration) =>
            /\ decompose_ret.raised = "none"
            /\ LET pulses_ == decompose_ret.pulses
                   full == duration \div duration_max
                   remainder == duration % duration_max
               IN  /\ Len(pulses_) = full + (IF remainder # 0 THEN 1 ELSE 0)
                   /\ \A i \in 1..full : pulses_[i] = duration_max
                   /\ (remainder # 0 /\ ~decompose_args.single_duration) =>
                          pulses_[Len(pulses_)] = remainder
                   /\ ~decompose_args.single_duration => SumSeq(pulses_) = duration
                   /\ decompose_args.single_duration =>
                          \A i \in 1..Len(pulses_) : pulses_[i] = duration_max

(***************************************************************************)
(* get_commandtable_map (quantify/scheduler/backends/zhinst/helpers.py).   *)
(* A dict is the sequence of its (key, value) pairs in insertion order.    *)
(***************************************************************************)
\* The length of pulse_ids
MaxPulseIds == 4

PulseIds == {1, 2, 3}

\* pulse_info["port"] of the pulses
PulsePorts == {None, "q0:mw"}

PulseIdLists == UNION {[1..n -> PulseIds] : n \in 0..MaxPulseIds}

DictKeys(dict) == {dict[i].key : i \in 1..Len(dict)}

\* dict[key]
DictGet(dict, key) == (CHOOSE i \in 1..Len(dict) : dict[i].key = key)

\* dict[key] = value
DictSet(dict, key, value) ==
    IF key \in DictKeys(dict)
    THEN [dict EXCEPT ![DictGet(dict, key)] = [key |-> key, value |-> value]]
    ELSE Append(dict, [key |-> key, value |-> value])

\* Mutant of in_commandtable_map: a repeated pulse id is not skipped
never_in_commandtable_map(map, pulse_id) == FALSE

\* `pulse_id in commandtable_map`
in_commandtable_map(map, pulse_id) == pulse_id \in DictKeys(map)

\* The body of `for pulse_id in pulse_ids`, from position k on
RECURSIVE commandtable_loop(_, _, _, _, _)
commandtable_loop(pulse_ids, pulseid_pulseinfo_dict, k, map, index) ==
    IF k > Len(pulse_ids) THEN map
    ELSE
        LET pulse_id == pulse_ids[k]
        IN  IF in_commandtable_map(map, pulse_id)
            THEN commandtable_loop(pulse_ids, pulseid_pulseinfo_dict, k + 1, map, index)
            ELSE IF pulseid_pulseinfo_dict[pulse_id] = None
            THEN commandtable_loop(pulse_ids, pulseid_pulseinfo_dict, k + 1, map, index)
            ELSE commandtable_loop(pulse_ids, pulseid_pulseinfo_dict, k + 1,
                                   DictSet(map, pulse_id, index), index + 1)

\* get_commandtable_map(pulse_ids, pulseid_pulseinfo_dict)
get_commandtable_map(pulse_ids, pulseid_pulseinfo_dict) ==
    commandtable_loop(pulse_ids, pulseid_pulseinfo_dict, 1, <<>>, 0)

InitZhinst ==
    /\ commandtable_args \in [pulse_ids : PulseIdLists, ports : [PulseIds -> PulsePorts]]
    /\ commandtable_map = [called |-> FALSE, map |-> <<>>]
    /\ BuilderIdle
    /\ FactoryIdle
    /\ QasmIdle
    /\ StitchedIdle
    /\ ScheduleIdle
    /\ WaveformIdle
    /\ SettingsIdle
    /\ PulseLibraryIdle
    /\ CoordinatorIdle

call_get_commandtable_map ==
    /\ UNCHANGED <<builder_vars, factory_vars, qasm_vars, stitched_vars, schedule_vars,
                   waveform_vars, settings_vars, pulse_library_vars, coordinator_vars>>
    /\ ~commandtable_map.called
    /\ commandtable_map' =
           [called |-> TRUE,
            map |-> get_commandtable_map(commandtable_args.pulse_ids, commandtable_args.ports)]
    /\ UNCHANGED commandtable_args

NextZhinst == call_get_commandtable_map

SpecZhinst == InitZhinst /\ [][NextZhinst]_vars

\* The positions in pulse_ids where a pulse id with a port occurs for the first time
FirstPorted ==
    {i \in 1..Len(commandtable_args.pulse_ids) :
        /\ commandtable_args.ports[commandtable_args.pulse_ids[i]] # None
        /\ \A j \in 1..(i - 1) :
               commandtable_args.pulse_ids[j] # commandtable_args.pulse_ids[i]}

\* C25: the distinct pulse ids that have a port get the indices 0, 1, 2, ... without
\* gaps in the order of their first occurrence in pulse_ids; a repeated pulse id
\* keeps its first index; a pulse id without a port gets no entry and uses up no
\* index; no two pulse ids share an index.
C25_CommandTableIndices ==
    commandtable_map.called =>
        LET map == commandtable_map.map
            pulse_ids == commandtable_args.pulse_ids
        IN  /\ DictKeys(map) = {pulse_ids[i] : i \in FirstPorted}
            /\ Len(map) = Cardinality(FirstPorted)
            /\ \A i \in FirstPorted :
                   map[DictGet(map, pulse_ids[i])].value
                       = Cardinality({j \in FirstPorted : j < i})
            /\ {map[i].value : i \in 1..Len(map)} = 0..(Len(map) - 1)
            /\ \A a, b \in 1..Len(map) : a # b => map[a].value # map[b].value

\* C25 witness: a pulse id without a port comes first, then a pulse id that is
\* repeated, then another one
C25_Witness ==
    /\ commandtable_map.called
    /\ Len(commandtable_args.pulse_ids) = 4
    /\ commandtable_args.ports[commandtable_args.pulse_ids[1]] = None
    /\ commandtable_args.pulse_ids[2] = commandtable_args.pulse_ids[3]
    /\ Len(commandtable_map.map) = 2
    /\ commandtable_map.map[2].key = commandtable_args.pulse_ids[4]
    /\ commandtable_map.map[2].value = 1

(***************************************************************************)
(* ProfiledInstrumentCoordinator (gettables_profiled.py).  The wrapped     *)
(* coordinator records the calls it receives; an elapsed time is counted   *)
(* as one entry of the list under its key of profile.                      *)
(***************************************************************************)
\* The number of calls made on the coordinator
MaxCalls == 3

Methods ==
    {"add_component", "prepare", "start", "stop", "retrieve_acquisition", "wait_done"}

\* The keys of profile: "schedule" and the names of the profiled methods
ProfileKeys == Methods \cup {"schedule"}

\* The arguments a caller passes to a method
CallerArgs(method) ==
    CASE method = "add_component" -> {<<"component">>}
      [] method = "prepare" -> {<<"compiled_schedule">>}
      [] method = "stop" -> {<<FALSE>>, <<TRUE>>}
      [] method = "wait_done" -> {<<10>>, <<20>>}
      [] OTHER -> {<<>>}

\* The arguments with which a method body calls the same method of parent_ic;
\* stop calls it without arguments, so that allow_failure has its default False
ParentArgs(method, args) == IF method = "stop" THEN <<FALSE>> ELSE args

\* What the method of the wrapped coordinator returns
parent_returns(method) ==
    IF method = "retrieve_acquisition" THEN "acquisition_data" ELSE None

\* What a method body of ProfiledInstrumentCoordinator returns: none has a return
\* statement
method_returns(method) == None

\* self.profile[key].append(...)
profile_append(prof, key) == [prof EXCEPT ![key] = prof[key] + 1]

\* ProfiledInstrumentCoordinator(name, parent_ic)
InitCoordinator ==
    /\ profile = [key \in ProfileKeys |-> 0]
    /\ parent_ic = <<>>
    /\ coordinator_call = [method |-> "init", args |-> <<>>, ret |-> None]
    /\ BuilderIdle
    /\ FactoryIdle
    /\ QasmIdle
    /\ StitchedIdle
    /\ ScheduleIdle
    /\ WaveformIdle
    /\ SettingsIdle
    /\ PulseLibraryIdle
    /\ ZhinstIdle

\* A call of a profiled method: the body runs (prepare first appends the schedule
\* duration to profile["schedule"]), then profiler appends the elapsed time
profiled_call(method) ==
    /\ UNCHANGED <<builder_vars, factory_vars, qasm_vars, stitched_vars, schedule_vars,
                   waveform_vars, settings_vars, pulse_library_vars, zhinst_vars>>
    /\ Len(parent_ic) < MaxCalls
    /\ \E args \in CallerArgs(method) :
        /\ parent_ic' = Append(parent_ic,
                               [method |-> method, args |-> ParentArgs(method, args)])
        /\ profile' = profile_append(
                          IF method = "prepare" THEN profile_append(profile, "schedule")
                          ELSE profile,
                          method)
        /\ coordinator_call' = [method |-> method, args |-> args,
                                ret |-> method_returns(method)]

add_component == profiled_call("add_component")
prepare == profiled_call("prepare")
start == profiled_call("start")
stop == profiled_call("stop")
retrieve_acquisition == profiled_call("retrieve_acquisition")
wait_done == profiled_call("wait_done")

NextCoordinator ==
    \/ add_component
    \/ prepare
    \/ start
    \/ stop
    \/ retrieve_acquisition
    \/ wait_done

SpecCoordinator == InitCoordinator /\ [][NextCoordinator]_vars

\* C30: every call of add_component, prepare, start, stop, retrieve_acquisition and
\* wait_done calls the same method of the wrapped coordinator once with the
\* caller's arguments, returns what that call returned, and adds one elapsed-time
\* entry to profile under the method's name and none under another method's name.
C30_ProfiledCoordinatorTransparent ==
    [][ LET c == coordinator_call'
        IN  /\ Len(parent_ic') = Len(parent_ic) + 1
            /\ SubSeq(parent_ic', 1, Len(parent_ic)) = parent_ic
            /\ parent_ic'[Len(parent_ic')].method = c.method
            /\ parent_ic'[Len(parent_ic')].args = c.args
            /\ c.ret = parent_returns(c.method)
            /\ \A m \in Methods :
                   profile'[m] = profile[m] + (IF m = c.method THEN 1 ELSE 0)
      ]_vars

====
